---- MODULE Spec2Model ----
(***************************************************************************)
(* A model of the RAMSES frontend's field-set builder                      *)
(* (yt/frontends/ramses/fields.py): the registration pipeline of           *)
(* RAMSESFieldInfo (setup_particle_fields, setup_fluid_fields and the      *)
(* create_*_fields helpers it calls) and the evaluation of the fields it   *)
(* registers over one chunk of data.                                       *)
(*                                                                         *)
(* A field value is the value of one cell (or one particle): every         *)
(* evaluator of the file is elementwise.  Values are exact rationals.      *)
(***************************************************************************)
EXTENDS Integers, Sequences, FiniteSets, TLC

\* ------------------------------------------------------------------ bounds

\* Largest number of samples along one axis of the cooling table.
MaxN == 2
\* Largest number of photon groups of a radiative-transfer run.
MaxGroups == 1
\* Largest number of evaluation contexts opened against one dataset.
MaxEvals == 2
\* Largest maximum refinement level of a dataset.
MaxLevel == 2
\* Largest number of entries of rt_c_frac in the radiative-transfer parameters.
MaxFrac == 2

\* --------------------------------------------------------------- rationals

Abs(x) == IF x < 0 THEN -x ELSE x

RECURSIVE GCD(_, _)
GCD(a, b) == IF b = 0 THEN a ELSE GCD(b, a % b)

\* The rational n/d in lowest terms with a positive denominator (d # 0).
Rat(n, d) ==
    LET g == GCD(Abs(n), Abs(d))
        s == IF d < 0 THEN -1 ELSE 1
    IN  [ok |-> TRUE, n |-> (s * n) \div g, d |-> (s * d) \div g, err |-> "none"]

Num(i) == Rat(i, 1)
\* The outcome of an evaluation that raised `e`.
Err(e) == [ok |-> FALSE, n |-> 0, d |-> 1, err |-> e]

RAdd(a, b) == Rat(a.n * b.d + b.n * a.d, a.d * b.d)
RSub(a, b) == Rat(a.n * b.d - b.n * a.d, a.d * b.d)
RMul(a, b) == Rat(a.n * b.n, a.d * b.d)
\* numpy yields inf/nan for a zero divisor; the inputs below keep divisors
\* (density, dx, mu, number_density) positive, as the physical data are.
RDiv(a, b) == IF b.n = 0 THEN Err("ZeroDivision") ELSE Rat(a.n * b.d, a.d * b.n)

RECURSIVE Pow10(_)
Pow10(e) == IF e = 0 THEN 1 ELSE 10 * Pow10(e - 1)

\* -------------------------------------------------------------------- keys

K(ftype, name) == <<ftype, name>>

Axes == {"x", "y", "z"}
\* ds.coordinates.axis_order of a RAMSES dataset (cartesian).
axis_order == <<"x", "y", "z">>

SeqToSet(s) == {s[i] : i \in DOMAIN s}

RECURSIVE Concat(_)
Concat(ss) == IF ss = <<>> THEN <<>> ELSE Head(ss) \o Concat(Tail(ss))

IndexOf(s, e) == IF \E i \in DOMAIN s : s[i] = e
                 THEN CHOOSE i \in DOMAIN s : s[i] = e /\ \A j \in 1..(i - 1) : s[j] # e
                 ELSE 0

\* known_other_fields: on-disk name |-> the aliases it gets under "gas".
known_other_fields ==
    [ n \in {"Density", "x-velocity", "y-velocity", "z-velocity", "Pres_IR",
             "Pressure", "Metallicity", "HII", "HeII", "HeIII",
             "x-acceleration", "y-acceleration", "z-acceleration", "Potential",
             "B_x_left", "B_x_right", "B_y_left", "B_y_right",
             "B_z_left", "B_z_right"} |->
        CASE n = "Density"        -> <<"density">>
          [] n = "x-velocity"     -> <<"velocity_x">>
          [] n = "y-velocity"     -> <<"velocity_y">>
          [] n = "z-velocity"     -> <<"velocity_z">>
          [] n = "Pres_IR"        -> <<"pres_IR", "pressure_IR">>
          [] n = "Pressure"       -> <<"pressure">>
          [] n = "Metallicity"    -> <<"metallicity">>
          [] n = "HII"            -> <<"H_p1_fraction">>
          [] n = "HeII"           -> <<"He_p1_fraction">>
          [] n = "HeIII"          -> <<"He_p2_fraction">>
          [] n = "x-acceleration" -> <<"acceleration_x">>
          [] n = "y-acceleration" -> <<"acceleration_y">>
          [] n = "z-acceleration" -> <<"acceleration_z">>
          [] n = "Potential"      -> <<"potential">>
          [] n = "B_x_left"       -> <<"magnetic_field_x_left">>
          [] n = "B_x_right"      -> <<"magnetic_field_x_right">>
          [] n = "B_y_left"       -> <<"magnetic_field_y_left">>
          [] n = "B_y_right"      -> <<"magnetic_field_y_right">>
          [] n = "B_z_left"       -> <<"magnetic_field_z_left">>
          [] n = "B_z_right"      -> <<"magnetic_field_z_right">> ]

\* known_species_names, restricted to the species of known_other_fields.
known_species_names ==
    [ n \in {"HII", "HeII", "HeIII"} |->
        CASE n = "HII" -> "H_p1" [] n = "HeII" -> "He_p1" [] n = "HeIII" -> "He_p2" ]

\* _cool_axes, _cool_arrs (names and units) and _cool_species.
cool_axes == <<"lognH", "logT">>
cool_arrs ==
    << <<"cooling_primordial", "erg*cm**3/s">>,
       <<"heating_primordial", "erg*cm**3/s">>,
       <<"cooling_compton", "erg*cm**3/s">>,
       <<"heating_compton", "erg*cm**3/s">>,
       <<"cooling_metal", "erg*cm**3/s">>,
       <<"cooling_primordial_prime", "erg*cm**3/s/K">>,
       <<"heating_primordial_prime", "erg*cm**3/s/K">>,
       <<"cooling_compton_prime", "erg*cm**3/s/K">>,
       <<"heating_compton_prime", "erg*cm**3/s/K">>,
       <<"cooling_metal_prime", "erg*cm**3/s/K">>,
       <<"mu", "None">>,
       <<"abundances", "None">> >>
cool_species ==
    <<"Electron_number_density", "HI_number_density", "HII_number_density",
      "HeI_number_density", "HeII_number_density", "HeIII_number_density">>

\* ------------------------------------------------------------ cooling file

\* The cooling file cooling_<num>.out as the reader sees it: whether it exists,
\* whether its header record (n1, n2) is there, and the sizes of the vectors
\* that follow the header, in file order (two axis vectors, then the value
\* blocks).  A truncated file holds a prefix of the vectors.
NoFile == [exists |-> FALSE, has_header |-> FALSE, n1 |-> 1, n2 |-> 1, vecs |-> <<>>]

\* The vectors of a file in the current format: 11 blocks of n1*n2 values and
\* the species stack of n1*n2*6 values.
CurrentFormatVecs(n1, n2) ==
    <<n1, n2>> \o [i \in 1..12 |-> IF i = 12 THEN n1 * n2 * Len(cool_species) ELSE n1 * n2]

\* The vectors of a pre-2010 file: every value block is a vector of n1 values.
LegacyFormatVecs(n1, n2) == <<n1, n2>> \o [i \in 1..12 |-> n1]

CoolingFile(n1, n2, hdr, vecs) ==
    [exists |-> TRUE, has_header |-> hdr, n1 |-> n1, n2 |-> n2, vecs |-> vecs]

\* Files on disk: none; complete current-format and legacy files; and every
\* truncation of a current-format file (down to an empty file).
CoolingFiles ==
    {NoFile}
    \cup {CoolingFile(n1, n2, TRUE, CurrentFormatVecs(n1, n2)) : n1 \in 1..MaxN, n2 \in 1..MaxN}
    \cup {CoolingFile(n1, n2, TRUE, LegacyFormatVecs(n1, n2)) : n1 \in 1..MaxN, n2 \in 1..MaxN}
    \cup {CoolingFile(n1, n2, TRUE, SubSeq(CurrentFormatVecs(n1, n2), 1, t)) :
             n1 \in 1..MaxN, n2 \in 1..MaxN, t \in 0..13}
    \cup {CoolingFile(1, 1, FALSE, <<>>)}

\* Complete files with n1 = n2 = MaxN whose value blocks are not all of the
\* size the format gives them: one block is empty, a plain table, a stack of
\* two, six or seven tables, or one value too long.
OddSizedFiles ==
    {CoolingFile(MaxN, MaxN, TRUE,
                 [CurrentFormatVecs(MaxN, MaxN) EXCEPT ![Len(cool_axes) + b] = size]) :
        b \in 1..Len(cool_arrs),
        size \in {0, MaxN * MaxN, 2 * MaxN * MaxN, 6 * MaxN * MaxN, 7 * MaxN * MaxN,
                  MaxN * MaxN + 1}}

\* FortranFile.read_vector at vector `pos` (1-based, after the header): the
\* vector's size, or -1 when the file ends before it (a short read).
read_vector(file, pos) == IF pos <= Len(file.vecs) THEN file.vecs[pos] ELSE -1

\* tvals[name] = {.., "unit": unit}: a dict keeps insertion order, and
\* assigning an existing key keeps its place.
\* "data" is kept as the place the values come from: the value block of the
\* file (1-based) and the slice of its last axis (0-based; -1: the whole block).
DictPut(tvals, name, unit, data) ==
    IF \E i \in DOMAIN tvals : tvals[i].name = name
    THEN [i \in DOMAIN tvals |-> IF tvals[i].name = name
                                 THEN [name |-> name, unit |-> unit, data |-> data]
                                 ELSE tvals[i]]
    ELSE Append(tvals, [name |-> name, unit |-> unit, data |-> data])

\* The species loop storing the slices under the species names taken backwards.
RECURSIVE PutSpeciesBackwards(_, _, _, _)
PutSpeciesBackwards(tvals, block, i, k) ==
    IF i >= k THEN tvals
    ELSE PutSpeciesBackwards(DictPut(tvals, cool_species[k - i], "1/cm**3", <<block, i>>),
                             block, i + 1, k)

\* for i in range(var.shape[-1]): tvals[_cool_species[i]] = var[:, :, i]
RECURSIVE PutSpecies(_, _, _, _)
PutSpecies(tvals, block, i, k) ==
    IF i >= k THEN tvals
    ELSE PutSpecies(DictPut(tvals, cool_species[i + 1], "1/cm**3", <<block, i>>),
                    block, i + 1, k)

\* The loop over _cool_arrs of create_cooling_fields, from block i (0-based):
\* how it ends ("done", "legacy", or the exception raised) and tvals.
RECURSIVE ReadBlocks(_, _, _)
ReadBlocks(file, i, tvals) ==
    IF i = Len(cool_arrs) THEN [status |-> "done", tvals |-> tvals]
    ELSE LET size == read_vector(file, Len(cool_axes) + i + 1)
             n12  == file.n1 * file.n2
         IN  IF size < 0 THEN [status |-> "CorruptTableError", tvals |-> tvals]
             ELSE IF size = file.n1 /\ i = 0 THEN [status |-> "legacy", tvals |-> tvals]
             ELSE IF size = n12
                  THEN ReadBlocks(file, i + 1,
                                  DictPut(tvals, cool_arrs[i + 1][1], cool_arrs[i + 1][2],
                                          <<i + 1, -1>>))
             ELSE IF size % n12 # 0 THEN [status |-> "ValueError", tvals |-> tvals]
             ELSE IF size \div n12 > Len(cool_species)
                  THEN [status |-> "IndexError", tvals |-> tvals]
             ELSE ReadBlocks(file, i + 1, PutSpecies(tvals, i + 1, 0, size \div n12))

\* The `with FortranFile(filename) as fd:` block: the header, the two axis
\* vectors, then the value blocks.
LoadCoolingFile(file) ==
    IF ~file.has_header THEN [status |-> "CorruptTableError", tvals |-> <<>>]
    ELSE IF \E j \in 1..Len(cool_axes) : read_vector(file, j) < 0
         THEN [status |-> "CorruptTableError", tvals |-> <<>>]
    ELSE ReadBlocks(file, 0, <<>>)

\* ------------------------------------------------------------- the dataset

\* The six face-centred magnetic components as stored on disk.
FaceFields == {K("ramses", "B_" \o ax \o "_" \o side) : ax \in Axes, side \in {"left", "right"}}

\* Fields every hydro output holds.
BaseFields == {K("ramses", "Density"), K("ramses", "Pressure"), K("ramses", "Metallicity")}

\* Optional on-disk fields outside the radiative-transfer output.
OptionalFields == FaceFields \cup {K("gravity", "Potential"), K("ramses", "Potential")}

\* Fields of a radiative-transfer run with ngroups photon groups.
RtFields(ngroups) ==
    {K("ramses", "HII"), K("ramses", "HeII"), K("ramses", "HeIII"), K("ramses", "Pres_IR")}
    \cup {K("ramses-rt", "Photon_density_" \o ToString(g)) : g \in 1..ngroups}
    \cup {K("ramses-rt", "Photon_flux_" \o ax \o "_" \o ToString(g)) : ax \in Axes, g \in 1..ngroups}

\* ds.particle_types, in the order the dataset sets its particle fields up.
particle_types == <<"io", "sink">>
ParticleTypes == {particle_types[i] : i \in DOMAIN particle_types}

\* A dataset; rt_c_frac (in units in which the default fraction is 1) and
\* max_level are one entry and one level unless said otherwise.
Dataset(file, rt, ng, opt, cosmo, conf) ==
    [cooling_file |-> file, rt_flag |-> rt, ngroups |-> ng,
     field_list |-> BaseFields \cup opt \cup (IF rt THEN RtFields(ng) ELSE {}),
     cosmological_simulation |-> cosmo, use_conformal_time |-> conf,
     rt_c_frac |-> <<1>>, max_level |-> 1]

\* The rt_c_frac arrays of the radiative-transfer parameters: not empty.
RtCFracs == UNION {[1..n -> {1, 2}] : n \in 1..MaxFrac}

\* Radiative-transfer runs with every rt_c_frac and maximum level.
RtParamDatasets ==
    {[Dataset(NoFile, TRUE, 1, {}, FALSE, FALSE) EXCEPT !.rt_c_frac = frac, !.max_level = lvl] :
        frac \in RtCFracs, lvl \in 0..MaxLevel}

\* One file of each outcome of the cooling-table load.
CoreFiles ==
    {NoFile,
     CoolingFile(2, 2, TRUE, CurrentFormatVecs(2, 2)),
     CoolingFile(2, 2, TRUE, LegacyFormatVecs(2, 2)),
     CoolingFile(2, 2, TRUE, SubSeq(CurrentFormatVecs(2, 2), 1, 5))}

RtSettings == {<<FALSE, 0>>} \cup {<<TRUE, g>> : g \in 0..MaxGroups}

\* Datasets for the registration pipeline: every set of optional fields and
\* every radiative-transfer setting with one file of each outcome, and every
\* cooling file with the optional fields all absent or all present.
SetupDatasets ==
    {Dataset(f, r[1], r[2], opt, c, t) :
        f \in CoreFiles, r \in RtSettings, opt \in SUBSET OptionalFields,
        c \in BOOLEAN, t \in BOOLEAN}
    \cup
    {Dataset(f, r[1], r[2], opt, FALSE, FALSE) :
        f \in CoolingFiles, r \in RtSettings, opt \in {{}, OptionalFields}}
    \cup RtParamDatasets

\* Datasets for evaluation: each outcome of the cooling-table load with
\* several sets of magnetic faces; a radiative-transfer run; every setting of
\* the two time-convention flags; a potential in either namespace; and a
\* radiative-transfer run with more than one photon group.
EvalDatasets ==
    {Dataset(f, FALSE, 0, opt, FALSE, FALSE) :
        f \in CoreFiles \cup {CoolingFile(2, 1, TRUE, CurrentFormatVecs(2, 1))},
        opt \in {{}, OptionalFields, {K("ramses", "B_x_left")},
                 FaceFields \ {K("ramses", "B_y_right")}}}
    \cup {Dataset(f, TRUE, MaxGroups, OptionalFields, FALSE, FALSE) : f \in CoreFiles}
    \cup {Dataset(NoFile, FALSE, 0, {}, c, t) : c \in BOOLEAN, t \in BOOLEAN}
    \cup {Dataset(NoFile, FALSE, 0, {pot}, FALSE, FALSE) :
             pot \in {K("gravity", "Potential"), K("ramses", "Potential")}}
    \cup {Dataset(NoFile, TRUE, MaxGroups + 1, {}, FALSE, FALSE)}

\* ---------------------------------------------------------- field registry

\* A field definition: an on-disk field ("raw"), an alias of `target`, an
\* index field of the mesh ("index"), or a derived field with evaluator `fn`
\* closed over `arg` (an axis, a species, a table name) and `grp` (a photon
\* group).
Def(kind, fn, arg, grp, target, units) ==
    [kind |-> kind, fn |-> fn, arg |-> arg, grp |-> grp, target |-> target, units |-> units]

NoKey == K("", "")
RawDef == Def("raw", "", "", 0, NoKey, "")
AliasDef(target) == Def("alias", "", "", 0, target, "")
Derived(fn, arg, grp, units) == Def("derived", fn, arg, grp, NoKey, units)

\* Index fields and generic fields of the mesh, defined for every dataset.
IndexFields == {K("gas", "dx"), K("gas", "cell_mass"), K("index", "cell_volume"),
                K("index", "grid_level")}

\* The on-disk particle fields: those the stellar-age formulas read, and the
\* mass.
ParticleFields == {K(p, n) : p \in ParticleTypes,
                             n \in {"particle_birth_time", "conformal_birth_time",
                                    "particle_mass"}}

\* The aliases known_other_fields gives the on-disk field k: the table goes by
\* the field's name, whatever on-disk namespace holds it.
AliasesOf(k) ==
    IF k[2] \in DOMAIN known_other_fields
    THEN {K("gas", known_other_fields[k[2]][i]) : i \in DOMAIN known_other_fields[k[2]]}
    ELSE {}

\* The place of an on-disk namespace in sorted(field_list): the aliases are
\* set in that order, so the last namespace holding a name gets its alias.
FtypeRank(ftype) == CASE ftype = "gravity" -> 1 [] ftype = "ramses" -> 2 [] OTHER -> 3

\* The registry a RAMSESFieldInfo holds once constructed: the on-disk fields
\* of field_list, their known_other_fields aliases, and the generic fields.
InitialRegistry(field_list) ==
    LET aliases == UNION {AliasesOf(k) : k \in field_list}
        keys    == field_list \cup aliases \cup IndexFields \cup ParticleFields
    IN  [k \in keys |->
            IF k \in field_list \cup ParticleFields THEN RawDef
            ELSE IF k \in IndexFields THEN Def("index", "", "", 0, NoKey, "")
            ELSE AliasDef(CHOOSE r \in field_list :
                             /\ k \in AliasesOf(r)
                             /\ \A r2 \in field_list :
                                   k \in AliasesOf(r2) => FtypeRank(r2[1]) <= FtypeRank(r[1]))]

Event(ev, key) == [ev |-> ev, key |-> key]

\* The builder's state while it runs: the registry, the trace of what it did,
\* mylog's warnings, ds.fluid_types, self.species_names, the value returned
\* the padded rt_c_frac of create_rt_fields (empty before it runs), the tvals
\* create_cooling_fields read from the file (empty unless it did), the
\* registrations made since construction (in order), the value
\* returned by create_cooling_fields ("none" before it returns), the exception
\* that ended the run ("none" when none did).
FieldInfo(field_list) ==
    [reg |-> InitialRegistry(field_list), events |-> <<>>, log |-> <<>>,
     fluid_types |-> <<"gas", "deposit", "index">>, species_names |-> <<>>,
     rt_c_frac |-> <<>>, tvals |-> <<>>, registrations |-> <<>>, found |-> "none",
     exc |-> "none"]

Reg(key, def) == [key |-> key, def |-> def]

\* A registration that leaves the definition a key already has in place.
register_keep_first(fi, key, def) ==
    [fi EXCEPT !.reg = [k \in DOMAIN fi.reg \cup {key} |->
                           IF k \in DOMAIN fi.reg THEN fi.reg[k] ELSE def],
               !.registrations = Append(@, Reg(key, def))]

\* register(key, ...): the registration of a key replaces the definition the
\* key had.
register(fi, key, def) ==
    [fi EXCEPT !.reg = [k \in DOMAIN fi.reg \cup {key} |-> IF k = key THEN def ELSE fi.reg[k]],
               !.registrations = Append(@, Reg(key, def))]

\* FieldInfoContainer.add_field
add_field(fi, key, def) ==
    [register(fi, key, def) EXCEPT !.events = Append(@, Event("add_field", key))]

\* FieldInfoContainer.alias
alias(fi, key, target) == register(fi, key, AliasDef(target))

RECURSIVE add_fields(_, _)
add_fields(fi, regs) ==
    IF regs = <<>> THEN fi
    ELSE add_fields(add_field(fi, Head(regs).key, Head(regs).def), Tail(regs))

\* known_particle_fields: name, units, aliases, as declared (particle_mass
\* twice: with the particle fields and with the sink fields).
known_particle_fields ==
    << <<"particle_position_x", "code_length", <<>> >>,
       <<"particle_position_y", "code_length", <<>> >>,
       <<"particle_position_z", "code_length", <<>> >>,
       <<"particle_velocity_x", "code_velocity", <<>> >>,
       <<"particle_velocity_y", "code_velocity", <<>> >>,
       <<"particle_velocity_z", "code_velocity", <<>> >>,
       <<"particle_mass", "code_mass", <<>> >>,
       <<"particle_identity", "", <<"particle_index">> >>,
       <<"particle_refinement_level", "", <<>> >>,
       <<"particle_birth_time", "code_time", <<"age">> >>,
       <<"conformal_birth_time", "", <<>> >>,
       <<"particle_metallicity", "", <<>> >>,
       <<"particle_family", "", <<>> >>,
       <<"particle_tag", "", <<>> >>,
       <<"particle_mass", "code_mass", <<>> >>,
       <<"particle_angular_momentum_x", "code_mass * code_velocity * code_length", <<>> >>,
       <<"particle_angular_momentum_y", "code_mass * code_velocity * code_length", <<>> >>,
       <<"particle_angular_momentum_z", "code_mass * code_velocity * code_length", <<>> >>,
       <<"particle_formation_time", "code_time", <<>> >>,
       <<"particle_accretion_rate", "code_mass/code_time", <<>> >>,
       <<"particle_delta_mass", "code_mass", <<>> >>,
       <<"particle_rho_gas", "code_density", <<>> >>,
       <<"particle_cs**2", "code_velocity", <<>> >>,
       <<"particle_etherm", "code_mass * code_velocity**2", <<>> >>,
       <<"particle_velocity_x_gas", "code_velocity", <<>> >>,
       <<"particle_velocity_y_gas", "code_velocity", <<>> >>,
       <<"particle_velocity_z_gas", "code_velocity", <<>> >>,
       <<"particle_mass_bh", "code_mass", <<>> >>,
       <<"particle_level", "", <<>> >>,
       <<"particle_radius_star", "code_length", <<>> >> >>

\* The on-disk definition the i-th declaration gives (ptype, name).
KnownParticleDef(i) == Def("raw", "", "", 0, NoKey, known_particle_fields[i][2])

RECURSIVE AliasAll(_, _, _, _)
AliasAll(fi, ptype, names, target) ==
    IF names = <<>> THEN fi
    ELSE AliasAll(alias(fi, K(ptype, Head(names)), target), ptype, Tail(names), target)

\* FieldInfoContainer.setup_particle_fields(ptype), from declaration i on:
\* each known field the particle type holds on disk is registered, with its
\* aliases, in the order declared.
RECURSIVE setup_known_particle_fields(_, _, _)
setup_known_particle_fields(fi, ptype, i) ==
    IF i > Len(known_particle_fields) THEN fi
    ELSE LET key == K(ptype, known_particle_fields[i][1])
         IN  IF key \notin ParticleFields
             THEN setup_known_particle_fields(fi, ptype, i + 1)
             ELSE setup_known_particle_fields(
                      AliasAll(register(fi, key, KnownParticleDef(i)), ptype,
                               known_particle_fields[i][3], key),
                      ptype, i + 1)

\* ----------------------------------------------------- the field-set builder

\* setup_particle_fields(ptype): the formula for (ptype, star_age).
StarAgeFunctionCosmoFirst(d) ==
    IF d.cosmological_simulation THEN "star_age_from_physical_cosmo"
    ELSE IF d.use_conformal_time THEN "star_age_from_conformal_cosmo"
    ELSE "star_age"

StarAgeFunction(d) ==
    IF d.cosmological_simulation /\ d.use_conformal_time THEN "star_age_from_conformal_cosmo"
    ELSE IF d.cosmological_simulation THEN "star_age_from_physical_cosmo"
    ELSE "star_age"

setup_particle_fields(fi, d, ptype) ==
    add_field(setup_known_particle_fields(
                  [fi EXCEPT !.events = Append(@, Event("call", K(ptype, "setup_particle_fields")))],
                  ptype, 1),
              K(ptype, "star_age"), Derived(StarAgeFunction(d), ptype, 0, "time"))

\* create_gravity_fields
create_gravity_fields(fi) ==
    add_field(fi, K("gas", "potential_energy"), Derived("potential_energy", "", 0, "energy"))

\* A create_magnetic_fields whose evaluators all see the axis the loop ended on.
create_magnetic_fields_late_bound(fi) ==
    add_field(
        add_fields(fi, [i \in DOMAIN axis_order |->
                          Reg(K("gas", "magnetic_field_" \o axis_order[i]),
                              Derived("_mag_field", axis_order[Len(axis_order)], 0,
                                      "magnetic_field_cgs"))]),
        K("gas", "magnetic_field_divergence"),
        Derived("_divB", "", 0, "magnetic_field_cgs/length"))

\* create_magnetic_fields: one cell-centred field per axis, then the divergence.
create_magnetic_fields(fi) ==
    add_field(
        add_fields(fi, [i \in DOMAIN axis_order |->
                          Reg(K("gas", "magnetic_field_" \o axis_order[i]),
                              Derived("_mag_field", axis_order[i], 0, "magnetic_field_cgs"))]),
        K("gas", "magnetic_field_divergence"),
        Derived("_divB", "", 0, "magnetic_field_cgs/length"))

rt_species == <<"H_p1", "He_p1", "He_p2">>
rt_flux_keys == <<"x", "y", "z">>

\* The pad width without its "+ 1".
PadWidthShort(d) ==
    IF d.max_level - Len(<<"rt_c_frac">>) > 0 THEN d.max_level - Len(<<"rt_c_frac">>) ELSE 0

\* max(0, self.ds.max_level - len(["rt_c_frac"]) + 1): the length is that of
\* the one-element list literal.
PadWidth(d) ==
    IF d.max_level - Len(<<"rt_c_frac">>) + 1 > 0
    THEN d.max_level - Len(<<"rt_c_frac">>) + 1 ELSE 0

PadValue(frac) == IF Len(frac) = 1 THEN frac[1] ELSE 1

\* np.pad(a, (0, width), constant_values=value)
np_pad(a, width, value) == a \o [i \in 1..width |-> value]

\* The padded rt_c_frac; rt_c and dens_conv have an entry for each of its.
PaddedRtCFrac(d) == np_pad(d.rt_c_frac, PadWidth(d), PadValue(d.rt_c_frac))

\* A create_rt_fields that names the photon fields by igroup, not igroup + 1.
create_rt_fields_zero_based(fi, d) ==
    LET ng == d.ngroups
        f0 == [fi EXCEPT !.fluid_types = Append(@, "rt"), !.rt_c_frac = PaddedRtCFrac(d)]
        f1 == add_field(f0, K("gas", "temp_IR"), Derived("_temp_IR", "", 0, "temperature"))
        f2 == add_fields(f1, Concat([i \in DOMAIN rt_species |->
                << Reg(K("gas", rt_species[i] \o "_density"),
                       Derived("_species_density", rt_species[i], 0, "density")),
                   Reg(K("gas", rt_species[i] \o "_mass"),
                       Derived("_species_mass", rt_species[i], 0, "mass")) >>]))
        f3 == add_fields(f2, [g \in 1..ng |->
                Reg(K("rt", "photon_density_" \o ToString(g - 1)),
                    Derived("_photon_density", "", g, "number_density"))])
    IN  add_fields(f3, Concat([i \in DOMAIN rt_flux_keys |-> [g \in 1..ng |->
                Reg(K("rt", "photon_flux_" \o rt_flux_keys[i] \o "_" \o ToString(g - 1)),
                    Derived("_photon_flux", rt_flux_keys[i], g, "1/time/length**2"))]]))

\* create_rt_fields: temp_IR, density and mass per species, photon density per
\* group, photon flux per axis and group.
create_rt_fields(fi, d) ==
    LET ng == d.ngroups
        f0 == [fi EXCEPT !.fluid_types = Append(@, "rt"), !.rt_c_frac = PaddedRtCFrac(d)]
        f1 == add_field(f0, K("gas", "temp_IR"), Derived("_temp_IR", "", 0, "temperature"))
        f2 == add_fields(f1, Concat([i \in DOMAIN rt_species |->
                << Reg(K("gas", rt_species[i] \o "_density"),
                       Derived("_species_density", rt_species[i], 0, "density")),
                   Reg(K("gas", rt_species[i] \o "_mass"),
                       Derived("_species_mass", rt_species[i], 0, "mass")) >>]))
        f3 == add_fields(f2, [g \in 1..ng |->
                Reg(K("rt", "photon_density_" \o ToString(g)),
                    Derived("_photon_density", "", g, "number_density"))])
    IN  add_fields(f3, Concat([i \in DOMAIN rt_flux_keys |-> [g \in 1..ng |->
                Reg(K("rt", "photon_flux_" \o rt_flux_keys[i] \o "_" \o ToString(g)),
                    Derived("_photon_flux", rt_flux_keys[i], g, "1/time/length**2"))]]))

\* _create_field(name, interp_object, unit)
create_field(fi, name, unit) ==
    add_field(fi, K("gas", name), Derived("_func", name, 0, unit))

\* The registrations with every table, mu among them, taken in the order of
\* the file, and number_density after them.
RegisterCoolingFieldsInFileOrder(fi, tvals) ==
    LET f1 == add_fields(fi, [i \in DOMAIN tvals |->
                Reg(K("gas", tvals[i].name),
                    Derived("_func", tvals[i].name, 0,
                            IF tvals[i].name = "mu" THEN "dimensionless" ELSE tvals[i].unit))])
        f2 == add_field(f1, K("gas", "number_density"),
                        Derived("_number_density", "", 0, "1/code_length**3"))
        f4 == add_field(f2, K("gas", "cooling_total"), Derived("_all_cool", "", 0, "erg*cm**3/s"))
        f5 == add_field(f4, K("gas", "heating_total"), Derived("_all_heat", "", 0, "erg*cm**3/s"))
    IN  add_field(f5, K("gas", "cooling_net"), Derived("_net_cool", "", 0, "erg*cm**3/s"))

\* The registrations of create_cooling_fields after the file is read: mu,
\* number_density, every other table, the totals, the net cooling.
RegisterCoolingFields(fi, tvals) ==
    LET others == SelectSeq(tvals, LAMBDA t : t.name # "mu")
        f1 == create_field(fi, "mu", "dimensionless")
        f2 == add_field(f1, K("gas", "number_density"),
                        Derived("_number_density", "", 0, "1/code_length**3"))
        f3 == add_fields(f2, [i \in DOMAIN others |->
                Reg(K("gas", others[i].name), Derived("_func", others[i].name, 0, others[i].unit))])
        f4 == add_field(f3, K("gas", "cooling_total"), Derived("_all_cool", "", 0, "erg*cm**3/s"))
        f5 == add_field(f4, K("gas", "heating_total"), Derived("_all_heat", "", 0, "erg*cm**3/s"))
    IN  add_field(f5, K("gas", "cooling_net"), Derived("_net_cool", "", 0, "erg*cm**3/s"))

Returned(fi, value) == [fi EXCEPT !.found = value]
Raised(fi, e) == [fi EXCEPT !.exc = e, !.events = Append(@, Event("raise", K("", e)))]
Logged(fi, msg) == [fi EXCEPT !.log = Append(@, msg)]

\* A create_cooling_fields that swallows a read error as "no cooling fields".
create_cooling_fields_catching(fi, d) ==
    LET f0   == [fi EXCEPT !.events = Append(@, Event("call", K("", "create_cooling_fields")))]
        file == d.cooling_file
        load == LoadCoolingFile(file)
    IN  IF ~file.exists THEN Returned(Logged(f0, "This output has no cooling fields"), "False")
        ELSE IF load.status = "done"
             THEN Returned(RegisterCoolingFields([f0 EXCEPT !.tvals = load.tvals], load.tvals), "True")
        ELSE Returned(Logged([f0 EXCEPT !.events = Append(@, Event("raise", K("", load.status)))],
                             "This cooling file format is no longer supported."), "False")

\* A create_cooling_fields that registers the tables read before the legacy
\* format is detected.
create_cooling_fields_legacy_partial(fi, d) ==
    LET f0   == [fi EXCEPT !.events = Append(@, Event("call", K("", "create_cooling_fields")))]
        file == d.cooling_file
        load == LoadCoolingFile(file)
    IN  IF ~file.exists THEN Returned(Logged(f0, "This output has no cooling fields"), "False")
        ELSE IF load.status = "legacy"
             THEN Returned(create_field(f0, "cooling_primordial", "erg*cm**3/s"), "False")
        ELSE IF load.status # "done" THEN Raised(f0, load.status)
        ELSE Returned(RegisterCoolingFields([f0 EXCEPT !.tvals = load.tvals], load.tvals), "True")

\* create_cooling_fields: "True" when the tables were read and registered,
\* "False" when the file is missing or in the legacy format; a read error, or
\* a missing mu table, ends it with an exception.
create_cooling_fields(fi, d) ==
    LET f0   == [fi EXCEPT !.events = Append(@, Event("call", K("", "create_cooling_fields")))]
        file == d.cooling_file
        load == LoadCoolingFile(file)
    IN  IF ~file.exists THEN Returned(Logged(f0, "This output has no cooling fields"), "False")
        ELSE IF load.status = "legacy"
             THEN Returned(Logged(f0, "This cooling file format is no longer supported. "
                                      \o "Cooling field loading skipped."), "False")
        ELSE IF load.status # "done" THEN Raised(f0, load.status)
        ELSE IF ~\E i \in DOMAIN load.tvals : load.tvals[i].name = "mu"
             THEN Raised(f0, "KeyError")
        ELSE Returned(RegisterCoolingFields([f0 EXCEPT !.tvals = load.tvals], load.tvals), "True")

\* The evaluator registered for (gas, temperature).
TemperatureFunctionInverted(found) ==
    IF found = "True" THEN "_temperature_fallback" ELSE "_temperature_mu"

TemperatureFunction(found) ==
    IF found = "True" THEN "_temperature_mu" ELSE "_temperature_fallback"

\* self.species_names (its order, that of field_list, is left out).
SpeciesNames(field_list) ==
    {known_species_names[k[2]] : k \in {f \in field_list : f[2] \in DOMAIN known_species_names}}

\* The optional families of setup_fluid_fields, with the gravity check hanging
\* off the magnetic one as an `elif`.
OptionalFamiliesElif(fi, d) ==
    LET f1 == IF d.rt_flag THEN create_rt_fields(fi, d) ELSE fi
    IN  IF K("gas", "magnetic_field_x_left") \in DOMAIN f1.reg THEN create_magnetic_fields(f1)
        ELSE IF K("gravity", "Potential") \in DOMAIN f1.reg THEN create_gravity_fields(f1)
        ELSE f1

\* The optional families of setup_fluid_fields, with the gravity check on the
\* field its evaluator reads, (gas, potential).
OptionalFamiliesGasPotential(fi, d) ==
    LET f1 == IF d.rt_flag THEN create_rt_fields(fi, d) ELSE fi
        f2 == IF K("gas", "magnetic_field_x_left") \in DOMAIN f1.reg
              THEN create_magnetic_fields(f1) ELSE f1
    IN  IF K("gas", "potential") \in DOMAIN f2.reg THEN create_gravity_fields(f2) ELSE f2

\* The optional families of setup_fluid_fields: radiative transfer, magnetic
\* fields, gravity, each behind its own check.
OptionalFamilies(fi, d) ==
    LET f1 == IF d.rt_flag THEN create_rt_fields(fi, d) ELSE fi
        f2 == IF K("gas", "magnetic_field_x_left") \in DOMAIN f1.reg
              THEN create_magnetic_fields(f1) ELSE f1
    IN  IF K("gravity", "Potential") \in DOMAIN f2.reg THEN create_gravity_fields(f2) ELSE f2

\* setup_fluid_fields from the return of create_cooling_fields on: an
\* exception of the load ends the method there.
AfterCooling(fi, d) ==
    IF fi.exc # "none" THEN fi
    ELSE OptionalFamilies(
            [add_field(fi, K("gas", "temperature"),
                       Derived(TemperatureFunction(fi.found), "", 0, "temperature"))
               EXCEPT !.species_names = SpeciesNames(d.field_list)], d)

\* temperature_over_mu registered with the evaluator of temperature.
RegisterTemperatureOverMuAsTemperature(fi) ==
    add_field(fi, K("gas", "temperature_over_mu"),
              Derived("_temperature_fallback", "", 0, "temperature"))

\* self.add_field(("gas", "temperature_over_mu"), function=_temperature_over_mu)
RegisterTemperatureOverMu(fi) ==
    add_field(fi, K("gas", "temperature_over_mu"),
              Derived("_temperature_over_mu", "", 0, "temperature"))

\* A setup_fluid_fields that registers temperature_over_mu after the load.
setup_fluid_fields_load_first(fi, d) ==
    LET f1 == create_cooling_fields(fi, d)
    IN  AfterCooling(IF f1.exc # "none" THEN f1 ELSE RegisterTemperatureOverMu(f1), d)

\* setup_fluid_fields
setup_fluid_fields(fi, d) ==
    AfterCooling(create_cooling_fields(RegisterTemperatureOverMu(fi), d), d)

\* --------------------------------------------------------------- evaluation

\* What an evaluator reads besides fields: attributes of the dataset ("ds"),
\* results of collaborators outside this file ("ext": the table interpolator,
\* the cosmological-time functions, the unit conversions of the
\* radiative-transfer parameters) and physical constants ("const"), each with
\* the value it has for the chunk at hand.
CurrentTime == K("ds", "current_time")
HubbleH0 == K("ds", "H0")
TFrw == K("ext", "t_frw")
ConformalToPhysical == K("ext", "convert_ramses_conformal_time_to_physical_time")
Interp(name) == K("ext", "interp_" \o name)
DensConv == K("ext", "dens_conv")
FluxConv == K("ext", "flux_conv")
MhOverKb == K("const", "mass_hydrogen_cgs/boltzmann_constant_cgs")
Mp == K("const", "mp")

IsAmbient(key) == key[1] \in {"ds", "ext", "const"}

\* Table names with the token "metal", resp. "compton", between underscores.
MetalNames == {"cooling_metal", "cooling_metal_prime"}
ComptonNames == {"cooling_compton", "heating_compton",
                 "cooling_compton_prime", "heating_compton_prime"}

Gas(name) == K("gas", name)

\* The fields (and ambient values) an evaluator reads, in the order it reads
\* them.
Reads(def) ==
    CASE def.fn = "_temperature_over_mu" -> <<Gas("pressure"), Gas("density"), MhOverKb>>
      [] def.fn = "_temperature_mu" -> <<Gas("temperature_over_mu"), Gas("mu")>>
      [] def.fn = "_temperature_fallback" -> <<Gas("temperature_over_mu")>>
      [] def.fn = "star_age_from_conformal_cosmo" ->
            <<K(def.arg, "conformal_birth_time"), ConformalToPhysical, CurrentTime>>
      [] def.fn = "star_age_from_physical_cosmo" ->
            <<HubbleH0, K(def.arg, "conformal_birth_time"), TFrw, CurrentTime>>
      [] def.fn = "star_age" -> <<K(def.arg, "particle_birth_time"), CurrentTime>>
      [] def.fn = "potential_energy" -> <<Gas("potential"), Gas("cell_mass")>>
      [] def.fn = "_mag_field" ->
            <<Gas("magnetic_field_" \o def.arg \o "_left"),
              Gas("magnetic_field_" \o def.arg \o "_right")>>
      [] def.fn = "_divB" ->
            <<Gas("magnetic_field_x_right")>>
            \o Concat([i \in DOMAIN axis_order |->
                          <<Gas("magnetic_field_" \o axis_order[i] \o "_right"),
                            Gas("magnetic_field_" \o axis_order[i] \o "_left")>>])
            \o <<Gas("dx")>>
      [] def.fn = "_temp_IR" -> <<Gas("pres_IR"), Gas("density"), MhOverKb>>
      [] def.fn = "_species_density" -> <<Gas(def.arg \o "_fraction"), Gas("density")>>
      [] def.fn = "_species_mass" -> <<Gas(def.arg \o "_density"), K("index", "cell_volume")>>
      [] def.fn = "_photon_density" ->
            <<K("index", "grid_level"), DensConv,
              K("ramses-rt", "Photon_density_" \o ToString(def.grp))>>
      [] def.fn = "_photon_flux" ->
            <<K("ramses-rt", "Photon_flux_" \o def.arg \o "_" \o ToString(def.grp)), FluxConv>>
      [] def.fn = "_func" ->
            <<Gas("temperature_over_mu"), Gas("metallicity"), Gas("density"), Interp(def.arg)>>
            \o (IF def.arg \in MetalNames THEN <<Gas("metallicity")>>
                ELSE IF def.arg \in ComptonNames THEN <<Gas("number_density")>>
                ELSE <<>>)
      [] def.fn = "_number_density" -> <<Gas("density"), Mp, Gas("mu")>>
      [] def.fn = "_all_cool" ->
            <<Gas("cooling_primordial"), Gas("cooling_metal"), Gas("cooling_compton")>>
      [] def.fn = "_all_heat" -> <<Gas("heating_primordial"), Gas("heating_compton")>>
      [] def.fn = "_net_cool" -> <<Gas("cooling_total"), Gas("heating_total")>>
      [] def.fn = "_user" -> <<def.target>>

RECURSIVE SumSeq(_)
SumSeq(vs) == IF vs = <<>> THEN Num(0) ELSE RAdd(Head(vs), SumSeq(Tail(vs)))

\* _divB with the difference taken the wrong way round (left - right).
divB_reversed(m) ==
    RDiv(SumSeq([i \in DOMAIN axis_order |->
                    RSub(m[Gas("magnetic_field_" \o axis_order[i] \o "_left")],
                         m[Gas("magnetic_field_" \o axis_order[i] \o "_right")])]),
         m[Gas("dx")])

\* _divB: the sum over the axes of right - left, over dx.
divB(m) ==
    RDiv(SumSeq([i \in DOMAIN axis_order |->
                    RSub(m[Gas("magnetic_field_" \o axis_order[i] \o "_right")],
                         m[Gas("magnetic_field_" \o axis_order[i] \o "_left")])]),
         m[Gas("dx")])

\* star_age returning the birth time minus the current time.
star_age_reversed(m, ptype) == RSub(m[K(ptype, "particle_birth_time")], m[CurrentTime])

\* star_age: the current time minus the birth time.
star_age(m, ptype) == RSub(m[CurrentTime], m[K(ptype, "particle_birth_time")])

\* star_age_from_physical_cosmo
star_age_from_physical_cosmo(m, ptype) ==
    LET time_tot   == RMul(m[TFrw], m[HubbleH0])
        birth_time == RDiv(RAdd(time_tot, m[K(ptype, "conformal_birth_time")]), m[HubbleH0])
    IN  IF birth_time.ok THEN RSub(m[CurrentTime], birth_time) ELSE birth_time

\* _temperature when the cooling tables were not loaded.
temperature_fallback(m) == m[Gas("temperature_over_mu")]

\* _temperature when the cooling tables were loaded.
temperature_mu(m) == RMul(m[Gas("temperature_over_mu")], m[Gas("mu")])

\* _func of _create_field without the Compton branch.
cooling_func_no_compton(m, name) ==
    LET x  == m[Interp(name)]
        rv == IF name = "mu" THEN x ELSE Num(Pow10(x.n))
    IN  IF name \in MetalNames THEN RDiv(RMul(rv, m[Gas("metallicity")]), Rat(2, 100))
        ELSE rv

\* _func of _create_field: the table value (a power of ten for every table but
\* mu), scaled by metallicity/0.02 for a metal table, divided by the number
\* density for a Compton table.
cooling_func(m, name) ==
    LET x  == m[Interp(name)]
        rv == IF name = "mu" THEN x ELSE Num(Pow10(x.n))
    IN  IF name \in MetalNames THEN RDiv(RMul(rv, m[Gas("metallicity")]), Rat(2, 100))
        ELSE IF name \in ComptonNames THEN RDiv(rv, m[Gas("number_density")])
        ELSE rv

\* The value an evaluator returns from the values it read.
Compute(def, m) ==
    CASE def.fn = "_temperature_over_mu" ->
            LET rv == RDiv(m[Gas("pressure")], m[Gas("density")])
            IN  IF rv.ok THEN RMul(rv, m[MhOverKb]) ELSE rv
      [] def.fn = "_temperature_mu" -> temperature_mu(m)
      [] def.fn = "_temperature_fallback" -> temperature_fallback(m)
      [] def.fn = "star_age_from_conformal_cosmo" -> RSub(m[CurrentTime], m[ConformalToPhysical])
      [] def.fn = "star_age_from_physical_cosmo" -> star_age_from_physical_cosmo(m, def.arg)
      [] def.fn = "star_age" -> star_age(m, def.arg)
      [] def.fn = "potential_energy" -> RMul(m[Gas("potential")], m[Gas("cell_mass")])
      [] def.fn = "_mag_field" ->
            RDiv(RAdd(m[Gas("magnetic_field_" \o def.arg \o "_left")],
                      m[Gas("magnetic_field_" \o def.arg \o "_right")]), Num(2))
      [] def.fn = "_divB" -> divB(m)
      [] def.fn = "_temp_IR" ->
            LET rv == RDiv(m[Gas("pres_IR")], m[Gas("density")])
            IN  IF rv.ok THEN RMul(rv, m[MhOverKb]) ELSE rv
      [] def.fn = "_species_density" -> RMul(m[Gas(def.arg \o "_fraction")], m[Gas("density")])
      [] def.fn = "_species_mass" ->
            RMul(m[Gas(def.arg \o "_density")], m[K("index", "cell_volume")])
      [] def.fn = "_photon_density" ->
            RMul(m[K("ramses-rt", "Photon_density_" \o ToString(def.grp))], m[DensConv])
      [] def.fn = "_photon_flux" ->
            RMul(m[K("ramses-rt", "Photon_flux_" \o def.arg \o "_" \o ToString(def.grp))],
                 m[FluxConv])
      [] def.fn = "_func" -> cooling_func(m, def.arg)
      [] def.fn = "_number_density" ->
            LET rv == RDiv(m[Gas("density")], m[Mp])
            IN  IF rv.ok THEN RDiv(rv, m[Gas("mu")]) ELSE rv
      [] def.fn = "_all_cool" ->
            RAdd(RAdd(m[Gas("cooling_primordial")], m[Gas("cooling_metal")]),
                 m[Gas("cooling_compton")])
      [] def.fn = "_all_heat" -> RAdd(m[Gas("heating_primordial")], m[Gas("heating_compton")])
      [] def.fn = "_net_cool" -> RSub(m[Gas("cooling_total")], m[Gas("heating_total")])
      [] def.fn = "_user" -> RAdd(m[def.target], Num(1))

\* The fallback _temperature warns unless it runs under the FieldDetector.
Warns(def, detector) == def.fn = "_temperature_fallback" /\ ~detector

\* An evaluation context: the values computed so far, the evaluators invoked
\* and fields loaded (in order), the calls of warnings.warn, the keys whose
\* evaluator is running, the exception that ended the evaluation.
NewContext == [memo |-> <<>>, calls |-> <<>>, warn_calls |-> 0, inprogress |-> {},
               exc |-> "none"]

Memoize(st, key, v) ==
    [st EXCEPT !.memo = [k \in DOMAIN st.memo \cup {key} |-> IF k = key THEN v ELSE st.memo[k]]]

\* A request for a key in progress answered with zeros, which are memoized.
CycleFoundZero(st, key) == Memoize(st, key, Num(0))

\* A request for a key in progress fails and memoizes nothing.
CycleFound(st, key) == [st EXCEPT !.exc = "CircularDependencyError"]

RECURSIVE Get(_, _, _, _, _)
RECURSIVE GetAll(_, _, _, _, _)
RECURSIVE Resolve(_, _, _, _, _)

\* data[key] computed afresh: the on-disk value, the alias's target, or the
\* evaluator's result. The key is in progress while its evaluator runs, and a
\* request for a key in progress fails.
Resolve(reg, data, detector, key, st) ==
    IF IsAmbient(key) THEN Memoize(st, key, Num(data[key]))
    ELSE IF key \notin DOMAIN reg THEN [st EXCEPT !.exc = "UnknownFieldError"]
    ELSE LET def == reg[key] IN
         IF def.kind \in {"raw", "index"}
         THEN IF key \in DOMAIN data
              THEN Memoize([st EXCEPT !.calls = Append(@, key)], key, Num(data[key]))
              ELSE [st EXCEPT !.exc = "DataNotFoundError"]
         ELSE IF def.kind = "alias"
         THEN LET s1 == Get(reg, data, detector, def.target, st)
              IN  IF s1.exc # "none" THEN s1 ELSE Memoize(s1, key, s1.memo[def.target])
         ELSE IF key \in st.inprogress
         THEN CycleFound(st, key)
         ELSE LET s0 == [st EXCEPT !.calls = Append(@, key),
                                   !.warn_calls = @ + (IF Warns(def, detector) THEN 1 ELSE 0),
                                   !.inprogress = @ \cup {key}]
                  s1 == GetAll(reg, data, detector, Reads(def), s0)
              IN  IF s1.exc # "none" THEN s1
                  ELSE LET v  == Compute(def, s1.memo)
                           s2 == [s1 EXCEPT !.inprogress = @ \ {key}]
                       IN  IF v.ok THEN Memoize(s2, key, v) ELSE [s2 EXCEPT !.exc = v.err]

\* data[key] resolved on every request, whatever the context already holds.
GetWithoutMemo(reg, data, detector, key, st) ==
    IF st.exc # "none" THEN st ELSE Resolve(reg, data, detector, key, st)

\* data[key] on a data object: the memoized value if the context holds one,
\* the freshly resolved value otherwise.
Get(reg, data, detector, key, st) ==
    IF st.exc # "none" \/ key \in DOMAIN st.memo THEN st
    ELSE Resolve(reg, data, detector, key, st)

GetAll(reg, data, detector, keys, st) ==
    IF keys = <<>> THEN st
    ELSE GetAll(reg, data, detector, Tail(keys), Get(reg, data, detector, Head(keys), st))

\* ------------------------------------------------- lookup-table interpolator

\* The sample coordinates along lognH and logT (in tenths), n of them.
XBins(n) == [i \in 1..n |-> 5 * i * (i - 1)]
YBins(n) == [j \in 1..n |-> 40 + 5 * j * (j - 1)]

\* The tables a file of n1 x n2 samples can hold (values in tenths).
LookupTables ==
    UNION {{[x_bins |-> XBins(n1), y_bins |-> YBins(n2), table |-> t] :
               t \in [1..n1 -> [1..n2 -> {10, 12}]]} : n1 \in 1..MaxN, n2 \in 1..MaxN}

\* Query points inside, on and beyond the sampled range.
Queries == {-10, 0, 5, 10, 20, 40} \X {30, 40, 45, 50, 60}

NoLookup == [interp |-> <<>>, query |-> <<>>, value |-> <<>>]

\* BilinearFieldInterpolator(table, (x_bins, y_bins), names, truncate)
BilinearFieldInterpolator(table, x_bins, y_bins, truncate) ==
    [table |-> table, x_bins |-> x_bins, y_bins |-> y_bins, truncate |-> truncate]

\* The interpolator of a cooling table built without truncate=True.
CoolingInterpolatorNoTruncate(tbl) ==
    BilinearFieldInterpolator(tbl.table, tbl.x_bins, tbl.y_bins, FALSE)

\* BilinearFieldInterpolator(tvals[key]["data"], (avals["lognH"],
\* avals["logT"]), ["lognH", "logT"], truncate=True)
CoolingInterpolator(tbl) ==
    BilinearFieldInterpolator(tbl.table, tbl.x_bins, tbl.y_bins, TRUE)

InRange(x, bins) == bins[1] <= x /\ x <= bins[Len(bins)]

\* The coordinate clamped to the sampled range.
ClampTo(x, bins) ==
    IF x < bins[1] THEN bins[1] ELSE IF x > bins[Len(bins)] THEN bins[Len(bins)] ELSE x

\* The cell bracketing x (in range): the last i with bins[i] <= x, short of
\* the last sample.
CellOf(x, bins) ==
    IF Len(bins) = 1 THEN 1
    ELSE CHOOSE i \in 1..(Len(bins) - 1) :
            /\ bins[i] <= x
            /\ \A k \in 1..(Len(bins) - 1) : bins[k] <= x => k <= i

\* The fractional offset of x in its cell; 0 on an axis of one sample.
Offset(x, bins) ==
    IF Len(bins) = 1 THEN Num(0)
    ELSE Rat(x - bins[CellOf(x, bins)], bins[CellOf(x, bins) + 1] - bins[CellOf(x, bins)])

\* evaluate(query): bilinear interpolation at (x, y); out of range, the
\* coordinates are clamped when truncate is set, and the query fails otherwise.
Interpolate(interp, x, y) ==
    IF ~interp.truncate /\ ~(InRange(x, interp.x_bins) /\ InRange(y, interp.y_bins))
    THEN Err("ValueError")
    ELSE LET xc == ClampTo(x, interp.x_bins)
             yc == ClampTo(y, interp.y_bins)
             i  == CellOf(xc, interp.x_bins)
             j  == CellOf(yc, interp.y_bins)
             i2 == IF Len(interp.x_bins) = 1 THEN i ELSE i + 1
             j2 == IF Len(interp.y_bins) = 1 THEN j ELSE j + 1
             xp == Offset(xc, interp.x_bins)
             yp == Offset(yc, interp.y_bins)
             xm == RSub(Num(1), xp)
             ym == RSub(Num(1), yp)
         IN  SumSeq(<<RMul(Num(interp.table[i][j]), RMul(xm, ym)),
                      RMul(Num(interp.table[i2][j]), RMul(xp, ym)),
                      RMul(Num(interp.table[i][j2]), RMul(xm, yp)),
                      RMul(Num(interp.table[i2][j2]), RMul(xp, yp))>>)

\* ------------------------------------------------------------ chunk inputs

TableNames == {cool_arrs[i][1] : i \in DOMAIN cool_arrs} \cup SeqToSet(cool_species)

AmbientKeys == {CurrentTime, HubbleH0, TFrw, ConformalToPhysical, DensConv, FluxConv,
                MhOverKb, Mp} \cup {Interp(n) : n \in TableNames}

\* The keys a chunk of dataset d holds a value for.
DataKeys(d) == d.field_list \cup ParticleFields \cup IndexFields \cup AmbientKeys

\* The two values a varied input takes.
Lo(k) == CASE k = CurrentTime -> 10
           [] k[2] = "particle_birth_time" -> 3
           [] OTHER -> 1
Hi(k) == CASE k = CurrentTime -> 12
           [] k[2] = "particle_birth_time" -> 10
           [] k \in FaceFields -> 3
           [] k = K("gas", "cell_mass") -> 3
           [] OTHER -> 2

\* The inputs varied when `target` is evaluated; every other input is 1.
Varied(d, target) ==
    IF target[2] = "star_age"
    THEN {K(target[1], "particle_birth_time"), K(target[1], "conformal_birth_time"),
          CurrentTime, ConformalToPhysical, HubbleH0}
    ELSE IF target[2] = "magnetic_field_divergence"
    THEN (FaceFields \cap d.field_list) \cup {Gas("dx")}
    ELSE IF \E ax \in Axes : target[2] = "magnetic_field_" \o ax
    THEN {f \in FaceFields \cap d.field_list :
             \E ax \in Axes, side \in {"left", "right"} :
                target[2] = "magnetic_field_" \o ax /\ f[2] = "B_" \o ax \o "_" \o side}
    ELSE IF target[2] \in TableNames
    THEN {Interp(target[2]), Interp("mu"), K("ramses", "Metallicity"), K("ramses", "Density")}
    ELSE IF target[1] = "rt"
    THEN {k \in d.field_list : k[1] = "ramses-rt"}
    ELSE IF target[2] = "potential_energy"
    THEN {K("gravity", "Potential"), K("ramses", "Potential"), Gas("cell_mass")} \cap DataKeys(d)
    ELSE {K("ramses", "Pressure"), K("ramses", "Density"), Interp("mu"), MhOverKb}

Chunks(d, target) ==
    {[k \in DataKeys(d) |->
        IF k \in Varied(d, target) THEN (IF k \in H THEN Hi(k) ELSE Lo(k)) ELSE 1] :
     H \in SUBSET Varied(d, target)}

\* ------------------------------------------------- fields added by a caller

MaxUserFields == 2

\* The keys a caller registers fields under: a new name, and one the builder
\* has registered.
UserKeys == {Gas("user_a"), Gas("temperature_over_mu")}

\* The fields a caller's evaluator may read.
UserTargets == UserKeys \cup {Gas("temperature"), Gas("density")}

\* A derived field of a caller: its evaluator reads `target` and returns it
\* plus one.
UserField(target) == Def("derived", "_user", "", 0, target, "")

UserFieldKeys(reg) == {k \in DOMAIN reg : reg[k].kind = "derived" /\ reg[k].fn = "_user"}

UserRegistrations(f) ==
    Cardinality({i \in DOMAIN f.registrations : f.registrations[i].def.fn = "_user"})

\* ------------------------------------------------------------------- state

VARIABLES
    ds,             \* the dataset: what is on disk and how it is configured
    fi,             \* the RAMSESFieldInfo: registry, trace, log, outcome
    fluid_done,     \* setup_fluid_fields has run
    particles_done, \* the particle types setup_particle_fields has run for
    ctx,            \* the evaluation context of the latest field request
    nevals,         \* the evaluation contexts opened so far
    recorded,       \* the fallback-temperature warnings recorded so far
    onceregistry,   \* the warning's location is in the module's __warningregistry__
    lookup,         \* the latest query of a cooling-table interpolator
    workers         \* the requests running side by side, each in its own context

vars == <<ds, fi, fluid_done, particles_done, ctx, nevals, recorded, onceregistry, lookup,
          workers>>

NoContext == [key |-> NoKey, detector |-> FALSE, memo |-> <<>>, calls |-> <<>>,
              warn_calls |-> 0, inprogress |-> {}, exc |-> "none"]

\* The threads that evaluate fields side by side.
Workers == {1, 2}

\* A request under way in a thread: the key asked for, the chunk, the field
\* container as it was when the request began, the stack of evaluators
\* entered (each with the place of its next read), and the context.
NoWorker == [key |-> NoKey, data |-> <<>>, seen |-> <<>>, stack |-> <<>>, memo |-> <<>>,
             calls |-> <<>>, warn_calls |-> 0, exc |-> "none"]

InitOn(datasets) ==
    /\ ds \in datasets
    /\ fi = FieldInfo(ds.field_list)
    /\ fluid_done = FALSE
    /\ particles_done = {}
    /\ ctx = NoContext
    /\ nevals = 0
    /\ recorded = 0
    /\ onceregistry = FALSE
    /\ lookup = NoLookup
    /\ workers = [w \in Workers |-> NoWorker]

\* The registration pipeline, over every capability combination.
SetupInit == InitOn(SetupDatasets)

\* Registration and evaluation, in a process that has raised no warning yet.
Init == InitOn(EvalDatasets)

\* The interpolators of the cooling tables, queried on their own.
InterpInit == InitOn({Dataset(CoolingFile(2, 2, TRUE, CurrentFormatVecs(2, 2)),
                              FALSE, 0, {}, FALSE, FALSE)})

\* Requests side by side, on an output without and one with cooling tables.
ConcInit == InitOn({Dataset(f, FALSE, 0, {}, FALSE, FALSE) :
                       f \in {NoFile, CoolingFile(2, 2, TRUE, CurrentFormatVecs(2, 2))}})

\* The registration pipeline on cooling files whose blocks have odd sizes.
ReadInit == InitOn({Dataset(f, FALSE, 0, {}, FALSE, FALSE) : f \in OddSizedFiles})

\* A hydro output without cooling table or optional fields, to which a caller
\* adds fields.
EngineInit == InitOn({Dataset(NoFile, FALSE, 0, {}, FALSE, FALSE)})

\* ----------------------------------------------------------------- actions

SetupFluidFields ==
    /\ ~fluid_done
    /\ fi.exc = "none"
    /\ fi' = setup_fluid_fields(fi, ds)
    /\ fluid_done' = TRUE
    /\ UNCHANGED <<ds, particles_done, ctx, nevals, recorded, onceregistry, lookup, workers>>

\* The dataset sets up the fluid fields, then the particle fields of each
\* particle type in turn.
SetupParticleFields(ptype) ==
    /\ fluid_done
    /\ Cardinality(particles_done) < Len(particle_types)
    /\ ptype = particle_types[Cardinality(particles_done) + 1]
    /\ fi.exc = "none"
    /\ fi' = setup_particle_fields(fi, ds, ptype)
    /\ particles_done' = particles_done \cup {ptype}
    /\ UNCHANGED <<ds, fluid_done, ctx, nevals, recorded, onceregistry, lookup, workers>>

\* warnings.warn(..., category=RuntimeWarning) under the filter in force:
\* "always" records every call; "default" records the first call from a
\* location and enters the location in the registry.
warnings_warn(w, filter) ==
    IF filter = "always" THEN [w EXCEPT !.recorded = @ + 1]
    ELSE IF w.onceregistry THEN w
    ELSE [recorded |-> w.recorded + 1, onceregistry |-> TRUE]

WarningFilters == {"default", "always"}

\* The context of a request for `key`, as the evaluation left it.
Request(key, detector, st) == [key |-> key, detector |-> detector] @@ st

DerivedKeys(reg) == {k \in DOMAIN reg : reg[k].kind = "derived"}

\* A request data[key] on a fresh data object (a chunk), once the dataset is
\* set up: under the FieldDetector or on real data.
EvaluateOn(keys) ==
    /\ ctx = NoContext
    /\ fluid_done
    /\ fi.exc = "none"
    /\ particles_done = ParticleTypes
    /\ nevals < MaxEvals
    /\ \E key \in keys, detector \in BOOLEAN :
         \E data \in Chunks(ds, key) :
            /\ ctx' = Request(key, detector, Get(fi.reg, data, detector, key, NewContext))
            /\ IF ctx'.warn_calls = 0
               THEN UNCHANGED <<recorded, onceregistry>>
               ELSE \E filter \in WarningFilters :
                      LET w == warnings_warn([recorded |-> recorded,
                                              onceregistry |-> onceregistry], filter)
                      IN  recorded' = w.recorded /\ onceregistry' = w.onceregistry
    /\ nevals' = nevals + 1
    /\ UNCHANGED <<ds, fi, fluid_done, particles_done, lookup, workers>>

\* A request for any derived field of the registry.
Evaluate == EvaluateOn(DerivedKeys(fi.reg))

\* A request for a field a caller added.
EvaluateUserField == EvaluateOn(UserFieldKeys(fi.reg))

\* ds.add_field(key, function=...): a caller adds a derived field once the
\* dataset is set up and before any field is requested (the registry is not
\* written during evaluation).
AddUserField ==
    /\ fluid_done
    /\ particles_done = ParticleTypes
    /\ fi.exc = "none"
    /\ ctx = NoContext
    /\ nevals = 0
    /\ UserRegistrations(fi) < MaxUserFields
    /\ \E key \in UserKeys, target \in UserTargets :
          fi' = add_field(fi, key, UserField(target))
    /\ UNCHANGED <<ds, fluid_done, particles_done, ctx, nevals, recorded, onceregistry, lookup, workers>>

\* The request completes and its context is dropped.
Release ==
    /\ ctx # NoContext
    /\ ctx' = NoContext
    /\ UNCHANGED <<ds, fi, fluid_done, particles_done, nevals, recorded, onceregistry, lookup, workers>>

\* interp_object(d) in _func: the interpolator built over a table of the file
\* is queried at one point (lognH, logT).
Lookup ==
    /\ lookup = NoLookup
    /\ \E tbl \in LookupTables, q \in Queries :
          lookup' = [interp |-> CoolingInterpolator(tbl), query |-> q,
                     value |-> Interpolate(CoolingInterpolator(tbl), q[1], q[2])]
    /\ UNCHANGED <<ds, fi, fluid_done, particles_done, ctx, nevals, recorded, onceregistry, workers>>

\* The value is handed to _func and the query is over.
Forget ==
    /\ lookup # NoLookup
    /\ lookup' = NoLookup
    /\ UNCHANGED <<ds, fi, fluid_done, particles_done, ctx, nevals, recorded, onceregistry, workers>>

\* The fallback _temperature re-registering (gas, temperature) as an alias of
\* temperature_over_mu once it has run, so as to warn only once.
EvaluatorRegistrationsSelfAlias(def) ==
    IF def.fn = "_temperature_fallback"
    THEN <<Reg(Gas("temperature"), AliasDef(Gas("temperature_over_mu")))>>
    ELSE <<>>

\* The registrations an evaluator makes when it runs: none of the evaluators
\* of this file calls add_field or writes to the field container.
EvaluatorRegistrations(def) == <<>>

\* What a field on the stack requests, in order, and the value it returns.
FrameReads(reg, key) ==
    IF reg[key].kind = "alias" THEN <<reg[key].target>> ELSE Reads(reg[key])
FrameValue(reg, key, memo) ==
    IF reg[key].kind = "alias" THEN memo[reg[key].target] ELSE Compute(reg[key], memo)

\* The fields requested side by side, and the two chunks they are requested
\* on: every varied input low, every varied input high.
ConcKeys == {Gas("temperature"), Gas("number_density"), Gas("heating_total"),
             K("io", "star_age")}
ConcChunks(d, key) ==
    {c \in Chunks(d, key) : \/ \A k \in Varied(d, key) \cap DataKeys(d) : c[k] = Lo(k)
                            \/ \A k \in Varied(d, key) \cap DataKeys(d) : c[k] = Hi(k)}

\* The worker once it has entered the evaluator (or alias) of `key`.
Entered(wk, reg, key) ==
    [wk EXCEPT !.stack = Append(@, [key |-> key, i |-> 1]),
               !.calls = IF reg[key].kind = "derived" THEN Append(@, key) ELSE @,
               !.warn_calls = @ + (IF reg[key].kind = "derived" /\ Warns(reg[key], FALSE)
                                   THEN 1 ELSE 0)]

\* Entering the evaluator of `key` in thread w: what the evaluator writes to
\* the registry and the warning it raises are seen by every thread.
Enter(w, wk, key) ==
    /\ workers' = [workers EXCEPT ![w] = Entered(wk, fi.reg, key)]
    /\ fi' = add_fields(fi, EvaluatorRegistrations(fi.reg[key]))
    /\ IF fi.reg[key].kind = "derived" /\ Warns(fi.reg[key], FALSE)
       THEN \E filter \in WarningFilters :
               LET wn == warnings_warn([recorded |-> recorded,
                                        onceregistry |-> onceregistry], filter)
               IN  recorded' = wn.recorded /\ onceregistry' = wn.onceregistry
       ELSE UNCHANGED <<recorded, onceregistry>>

\* The field r is to be computed by an evaluator (or alias) of its own.
NeedsEvaluator(wk, reg, r) ==
    /\ r \notin DOMAIN wk.memo
    /\ ~IsAmbient(r)
    /\ r \in DOMAIN reg
    /\ reg[r].kind \in {"alias", "derived"}
    /\ ~(reg[r].kind = "derived" /\ \E j \in DOMAIN wk.stack : wk.stack[j].key = r)

\* The worker after a request for r that needs no evaluator: r is in the
\* context already, is loaded, or the request fails.
Requested(wk, reg, r) ==
    LET next == [wk EXCEPT !.stack[Len(wk.stack)].i = @ + 1]
    IN  IF r \in DOMAIN wk.memo THEN next
        ELSE IF IsAmbient(r) THEN Memoize(next, r, Num(wk.data[r]))
        ELSE IF r \notin DOMAIN reg THEN [wk EXCEPT !.exc = "UnknownFieldError"]
        ELSE IF reg[r].kind \in {"raw", "index"}
        THEN IF r \in DOMAIN wk.data
             THEN Memoize([next EXCEPT !.calls = Append(@, r)], r, Num(wk.data[r]))
             ELSE [wk EXCEPT !.exc = "DataNotFoundError"]
        ELSE CycleFound(wk, r)

\* The worker after its innermost evaluator has returned.
WorkerReturned(wk, reg) ==
    LET key == wk.stack[Len(wk.stack)].key
        v   == FrameValue(reg, key, wk.memo)
    IN  IF v.ok THEN Memoize([wk EXCEPT !.stack = SubSeq(@, 1, Len(@) - 1)], key, v)
        ELSE [wk EXCEPT !.exc = v.err]

Finished(wk) == wk.key # NoKey /\ (wk.stack = <<>> \/ wk.exc # "none")

\* A thread requests a field on a chunk of its own, in a context of its own.
StartRequest(w) ==
    /\ workers[w] = NoWorker
    /\ fluid_done
    /\ fi.exc = "none"
    /\ particles_done = ParticleTypes
    /\ nevals < MaxEvals
    /\ \E key \in ConcKeys \cap DerivedKeys(fi.reg) :
          \E data \in ConcChunks(ds, key) :
             Enter(w, [NoWorker EXCEPT !.key = key, !.data = data, !.seen = fi], key)
    /\ nevals' = nevals + 1
    /\ UNCHANGED <<ds, fluid_done, particles_done, ctx, lookup>>

\* A thread gets on by one step: its innermost evaluator requests its next
\* field, or returns.
StepRequest(w) ==
    /\ workers[w].stack # <<>>
    /\ workers[w].exc = "none"
    /\ LET wk    == workers[w]
           top   == wk.stack[Len(wk.stack)]
           reads == FrameReads(fi.reg, top.key)
       IN  IF top.i > Len(reads)
           THEN /\ workers' = [workers EXCEPT ![w] = WorkerReturned(wk, fi.reg)]
                /\ UNCHANGED <<fi, recorded, onceregistry>>
           ELSE IF NeedsEvaluator(wk, fi.reg, reads[top.i])
           THEN Enter(w, wk, reads[top.i])
           ELSE /\ workers' = [workers EXCEPT ![w] = Requested(wk, fi.reg, reads[top.i])]
                /\ UNCHANGED <<fi, recorded, onceregistry>>
    /\ UNCHANGED <<ds, fluid_done, particles_done, ctx, nevals, lookup>>

\* The thread's request is over and its context is dropped.
EndRequest(w) ==
    /\ Finished(workers[w])
    /\ workers' = [workers EXCEPT ![w] = NoWorker]
    /\ UNCHANGED <<ds, fi, fluid_done, particles_done, ctx, nevals, recorded, onceregistry,
                   lookup>>

InterpNext ==
    \/ Lookup
    \/ Forget

SetupNext ==
    \/ SetupFluidFields
    \/ \E ptype \in ParticleTypes : SetupParticleFields(ptype)

Next ==
    \/ SetupNext
    \/ Evaluate
    \/ Release

\* Setup, then requests running side by side.
ConcNext ==
    \/ SetupNext
    \/ \E w \in Workers : StartRequest(w)
    \/ \E w \in Workers : StepRequest(w)
    \/ \E w \in Workers : EndRequest(w)

\* Setup, then the fields a caller adds, then requests for them.
EngineNext ==
    \/ SetupNext
    \/ AddUserField
    \/ EvaluateUserField
    \/ Release

SetupSpec == SetupInit /\ [][SetupNext]_vars

Spec == Init /\ [][Next]_vars

InterpSpec == InterpInit /\ [][InterpNext]_vars

EngineSpec == EngineInit /\ [][EngineNext]_vars

ReadSpec == ReadInit /\ [][SetupNext]_vars

ConcSpec == ConcInit /\ [][ConcNext]_vars

\* ------------------------------------------------------------------ claims

Temperature == Gas("temperature")
TemperatureOverMu == Gas("temperature_over_mu")

\* The fields of the cooling family: the tables (the abundances block under
\* the names of its species), number_density, the totals.
CoolingFamilyKeys ==
    {Gas(n) : n \in (TableNames \ {"abundances"})
                     \cup {"number_density", "cooling_total", "heating_total", "cooling_net"}}

\* The first value vector of the file has n1 entries.
LegacyDetected(file) ==
    file.exists /\ file.has_header /\ Len(file.vecs) >= 3 /\ file.vecs[3] = file.n1

\* The file ends before the reader has what it asks for.
ShortRead(file) ==
    /\ file.exists
    /\ \/ ~file.has_header
       \/ Len(file.vecs) < 3
       \/ file.vecs[3] # file.n1 /\ Len(file.vecs) < Len(cool_axes) + Len(cool_arrs)

EventIndex(ev, key) == IndexOf(fi.events, Event(ev, key))
EventCount(ev, key) == Cardinality({i \in DOMAIN fi.events : fi.events[i] = Event(ev, key)})

\* C1: once setup_fluid_fields has completed, the evaluator of (gas,
\* temperature) follows the value create_cooling_fields returned: after True
\* every evaluation of temperature yields temperature_over_mu * mu, after
\* False (as when the file is missing) it yields temperature_over_mu itself.
C1_TemperatureFollowsCoolingOutcome ==
    (fluid_done /\ fi.exc = "none") =>
        /\ fi.found \in {"True", "False"}
        /\ ~ds.cooling_file.exists => fi.found = "False"
        /\ fi.reg[Temperature].fn =
              (IF fi.found = "True" THEN "_temperature_mu" ELSE "_temperature_fallback")
        /\ (ctx.key = Temperature /\ ctx.exc = "none") =>
              LET t   == ctx.memo[Temperature]
                  tom == ctx.memo[TemperatureOverMu]
              IN  IF fi.found = "True"
                  THEN t.n * tom.d * ctx.memo[Gas("mu")].d
                         = tom.n * ctx.memo[Gas("mu")].n * t.d
                  ELSE t = tom

C1_Witness ==
    /\ fluid_done /\ fi.found = "False" /\ LegacyDetected(ds.cooling_file)
    /\ ctx.key = Temperature /\ ctx.exc = "none" /\ ~ctx.detector
    /\ ctx.memo[Temperature] = Num(2)

\* C2 (as claimed): without a cooling table, after any real evaluation of
\* temperature exactly one warning is on record: the first such evaluation
\* records it and a later one records nothing more.
C2_WarningRecordedExactlyOnce ==
    (~ds.cooling_file.exists /\ ctx.key = Temperature /\ ~ctx.detector) => recorded = 1

\* C3: a file whose first value vector has n1 entries makes
\* create_cooling_fields return False without an exception, with no field of
\* the cooling family registered, and leaves setup_fluid_fields with the
\* registry it builds when the file is missing.
C3_LegacyFormatAbortsLikeMissingFile ==
    (fluid_done /\ LegacyDetected(ds.cooling_file)) =>
        /\ fi.found = "False"
        /\ fi.exc = "none"
        /\ DOMAIN fi.reg \cap CoolingFamilyKeys = {}
        /\ particles_done = {} =>
              fi.reg = setup_fluid_fields(FieldInfo(ds.field_list),
                                          [ds EXCEPT !.cooling_file = NoFile]).reg

C3_Witness ==
    /\ fluid_done /\ particles_done = {}
    /\ LegacyDetected(ds.cooling_file) /\ ds.cooling_file.n2 > 1
    /\ fi.found = "False" /\ ds.rt_flag

\* The capability each optional family hangs on.
CoolingLoads(d) ==
    d.cooling_file.exists /\ d.cooling_file.n2 > 1
    /\ d.cooling_file.vecs = CurrentFormatVecs(d.cooling_file.n1, d.cooling_file.n2)
CoolingUsable(d) ==
    ~d.cooling_file.exists \/ LegacyDetected(d.cooling_file) \/ CoolingLoads(d)
MagneticGate(d) == K("ramses", "B_x_left") \in d.field_list
GravityGate(d) == K("gravity", "Potential") \in d.field_list

MagneticFamilyKeys ==
    {Gas("magnetic_field_" \o ax) : ax \in Axes} \cup {Gas("magnetic_field_divergence")}
GravityFamilyKeys == {Gas("potential_energy")}
RtFamilyKeys(ng) ==
    {Gas("temp_IR")}
    \cup {Gas(sp \o suffix) : sp \in {"H_p1", "He_p1", "He_p2"}, suffix \in {"_density", "_mass"}}
    \cup {K("rt", "photon_density_" \o ToString(g)) : g \in 1..ng}
    \cup {K("rt", "photon_flux_" \o ax \o "_" \o ToString(g)) : ax \in Axes, g \in 1..ng}
AllRtFamilyKeys == RtFamilyKeys(MaxGroups + 1)

\* C4: whenever the cooling file is missing, legacy or well formed,
\* setup_fluid_fields completes without an exception, and the fields each
\* optional family has registered are a function of that family's own
\* capability alone, whatever the other three are.
C4_FamiliesAreIndependent ==
    (fluid_done /\ CoolingUsable(ds)) =>
        /\ fi.exc = "none"
        /\ DOMAIN fi.reg \cap CoolingFamilyKeys
              = (IF CoolingLoads(ds) THEN CoolingFamilyKeys ELSE {})
        /\ DOMAIN fi.reg \cap AllRtFamilyKeys
              = (IF ds.rt_flag THEN RtFamilyKeys(ds.ngroups) ELSE {})
        /\ DOMAIN fi.reg \cap MagneticFamilyKeys
              = (IF MagneticGate(ds) THEN MagneticFamilyKeys ELSE {})
        /\ DOMAIN fi.reg \cap GravityFamilyKeys
              = (IF GravityGate(ds) THEN GravityFamilyKeys ELSE {})

C4_Witness ==
    /\ fluid_done /\ fi.exc = "none"
    /\ ~ds.cooling_file.exists /\ ~ds.rt_flag /\ MagneticGate(ds) /\ GravityGate(ds)
    /\ Gas("potential_energy") \in DOMAIN fi.reg
    /\ Gas("magnetic_field_divergence") \in DOMAIN fi.reg

\* C5: once setup_fluid_fields has completed normally, (gas,
\* temperature_over_mu) and (gas, temperature) are both registered, and
\* temperature_over_mu was registered before create_cooling_fields was entered.
C5_TemperatureFieldsAlwaysRegistered ==
    fluid_done =>
        /\ fi.exc = "none" => {TemperatureOverMu, Temperature} \subseteq DOMAIN fi.reg
        /\ EventIndex("add_field", TemperatureOverMu) > 0
        /\ EventIndex("add_field", TemperatureOverMu)
              < EventIndex("call", K("", "create_cooling_fields"))

C5_Witness ==
    /\ fluid_done /\ fi.exc = "none" /\ fi.found = "True"
    /\ ds.rt_flag /\ MagneticGate(ds) /\ GravityGate(ds)
    /\ Temperature \in DOMAIN fi.reg

\* C6: a short read of a cooling file that is there ends setup_fluid_fields
\* with CorruptTableError: create_cooling_fields returns nothing (not False),
\* and no temperature field is registered as if the family were disabled.
C6_ShortReadPropagates ==
    (fluid_done /\ ShortRead(ds.cooling_file)) =>
        /\ fi.exc = "CorruptTableError"
        /\ fi.found = "none"
        /\ Temperature \notin DOMAIN fi.reg
        /\ particles_done = {}

C6_Witness ==
    /\ fluid_done /\ ShortRead(ds.cooling_file) /\ Len(ds.cooling_file.vecs) = 13
    /\ fi.exc = "CorruptTableError"

\* The formula the two flags select.
ExpectedStarAge(cosmological, conformal) ==
    CASE cosmological /\ conformal -> "star_age_from_conformal_cosmo"
      [] cosmological /\ ~conformal -> "star_age_from_physical_cosmo"
      [] ~cosmological -> "star_age"

\* C7: setup_particle_fields(ptype) registers (ptype, star_age) once and no
\* other derived field, with the formula the two flags select: conformal-cosmological,
\* physical-cosmological, or, without cosmology, the plain one, whatever the
\* conformal-time flag.
C7_StarAgeFormulaByFlags ==
    \A p \in ParticleTypes :
        IF p \in particles_done
        THEN /\ K(p, "star_age") \in DOMAIN fi.reg
             /\ fi.reg[K(p, "star_age")].fn
                   = ExpectedStarAge(ds.cosmological_simulation, ds.use_conformal_time)
             /\ fi.reg[K(p, "star_age")].arg = p
             /\ EventCount("add_field", K(p, "star_age")) = 1
             /\ {k \in DOMAIN fi.reg : k[1] = p /\ fi.reg[k].kind = "derived"}
                   = {K(p, "star_age")}
        ELSE K(p, "star_age") \notin DOMAIN fi.reg

C7_Witness ==
    /\ particles_done = ParticleTypes
    /\ ds.cosmological_simulation /\ ~ds.use_conformal_time
    /\ fi.reg[K("sink", "star_age")].fn = "star_age_from_physical_cosmo"

\* C8: in a dataset that is not cosmological, the star_age of a particle is
\* current_time minus its particle_birth_time, in the time unit of the
\* dataset (current_time 10 and birth time 3 give 7).
C8_NonCosmologicalStarAge ==
    (~ds.cosmological_simulation /\ ctx.key[2] = "star_age" /\ ctx.exc = "none") =>
        LET age   == ctx.memo[ctx.key]
            now   == ctx.memo[CurrentTime]
            birth == ctx.memo[K(ctx.key[1], "particle_birth_time")]
        IN  /\ age.d = 1
            /\ age.n = now.n - birth.n
            /\ fi.reg[ctx.key].units = "time"
            /\ (now = Num(10) /\ birth = Num(3)) => age = Num(7)

C8_Witness ==
    /\ ~ds.cosmological_simulation /\ ds.use_conformal_time
    /\ ctx.key = K("io", "star_age") /\ ctx.exc = "none"
    /\ ctx.memo[CurrentTime] = Num(10)
    /\ ctx.memo[K("io", "particle_birth_time")] = Num(3)
    /\ ctx.memo[ctx.key] = Num(7)

MagneticFamilyRegistered == DOMAIN fi.reg \cap MagneticFamilyKeys # {}

\* C9 (as claimed): the magnetic family is registered iff the left and right
\* face components are on disk; when they are not, no magnetic_field_<ax> and
\* no magnetic_field_divergence is registered; when it is registered, a
\* request for magnetic_field_<ax> yields (left + right) / 2.
C9_MagneticFamilyIffFacesPresent ==
    (fluid_done /\ fi.exc = "none") =>
        /\ MagneticFamilyRegistered <=> FaceFields \subseteq ds.field_list
        /\ ~(FaceFields \subseteq ds.field_list) => ~MagneticFamilyRegistered
        /\ MagneticFamilyRegistered =>
              \A i \in DOMAIN axis_order :
                 (ctx.key = Gas("magnetic_field_" \o axis_order[i])) =>
                    /\ ctx.exc = "none"
                    /\ 2 * ctx.memo[ctx.key].n
                          = ctx.memo[ctx.key].d
                            * (ctx.memo[Gas("magnetic_field_" \o axis_order[i] \o "_left")].n
                               + ctx.memo[Gas("magnetic_field_" \o axis_order[i] \o "_right")].n)

RECURSIVE SumInts(_)
SumInts(ns) == IF ns = <<>> THEN 0 ELSE Head(ns) + SumInts(Tail(ns))

\* C10: a request for magnetic_field_divergence that yields a value yields the
\* sum over the axes of the axis order of (right - left), divided by dx: an
\* axis whose faces are equal adds nothing.
C10_DivergenceIsSumOfFaceDifferences ==
    (ctx.key = Gas("magnetic_field_divergence") /\ ctx.exc = "none") =>
        LET div == ctx.memo[ctx.key]
            dx  == ctx.memo[Gas("dx")]
            diffs == [i \in DOMAIN axis_order |->
                        ctx.memo[Gas("magnetic_field_" \o axis_order[i] \o "_right")].n
                        - ctx.memo[Gas("magnetic_field_" \o axis_order[i] \o "_left")].n]
        IN  div.n * dx.n = SumInts(diffs) * div.d

C10_Witness ==
    /\ ctx.key = Gas("magnetic_field_divergence") /\ ctx.exc = "none"
    /\ ctx.memo[Gas("magnetic_field_x_left")] = Num(1)
    /\ ctx.memo[Gas("magnetic_field_x_right")] = Num(3)
    /\ ctx.memo[Gas("magnetic_field_y_left")] = ctx.memo[Gas("magnetic_field_y_right")]
    /\ ctx.memo[Gas("magnetic_field_z_left")] = ctx.memo[Gas("magnetic_field_z_right")]
    /\ ctx.memo[Gas("dx")] = Num(2)
    /\ ctx.memo[ctx.key] = Num(1)

\* C11: (gas, potential_energy) is registered iff (gravity, Potential) is in
\* the registry, and a request for it yields potential * cell_mass.
C11_PotentialEnergyIffPotential ==
    (fluid_done /\ fi.exc = "none") =>
        /\ Gas("potential_energy") \in DOMAIN fi.reg <=> K("gravity", "Potential") \in DOMAIN fi.reg
        /\ ctx.key = Gas("potential_energy") =>
              /\ ctx.exc = "none"
              /\ ctx.memo[ctx.key].d = 1
              /\ ctx.memo[ctx.key].n
                    = ctx.memo[Gas("potential")].n * ctx.memo[Gas("cell_mass")].n

C11_Witness ==
    /\ ctx.key = Gas("potential_energy") /\ ctx.exc = "none"
    /\ K("ramses", "Potential") \notin ds.field_list
    /\ ctx.memo[K("gravity", "Potential")] = Num(2)
    /\ ctx.memo[Gas("cell_mass")] = Num(3)
    /\ ctx.memo[ctx.key] = Num(6)

\* The fields registered with one of the evaluators `fns`.
RegisteredWith(fns) == {k \in DOMAIN fi.reg : fi.reg[k].kind = "derived" /\ fi.reg[k].fn \in fns}

\* C12: with radiative-transfer groups detected and N groups, create_rt_fields
\* registers a density and a mass field for exactly H_p1, He_p1 and He_p2,
\* exactly the N fields (rt, photon_density_g) and the 3N fields (rt,
\* photon_flux_<k>_g), g = 1..N; with none detected it registers none of them
\* and leaves fluid_types as it was.
C12_RtFieldsByGroupCount ==
    (fluid_done /\ fi.exc = "none") =>
        IF ds.rt_flag
        THEN /\ RegisteredWith({"_species_density"})
                   = {Gas(sp \o "_density") : sp \in {"H_p1", "He_p1", "He_p2"}}
             /\ RegisteredWith({"_species_mass"})
                   = {Gas(sp \o "_mass") : sp \in {"H_p1", "He_p1", "He_p2"}}
             /\ RegisteredWith({"_photon_density"})
                   = {K("rt", "photon_density_" \o ToString(g)) : g \in 1..ds.ngroups}
             /\ RegisteredWith({"_photon_flux"})
                   = {K("rt", "photon_flux_" \o ax \o "_" \o ToString(g)) :
                         ax \in {"x", "y", "z"}, g \in 1..ds.ngroups}
             /\ Cardinality(RegisteredWith({"_photon_density"})) = ds.ngroups
             /\ Cardinality(RegisteredWith({"_photon_flux"})) = 3 * ds.ngroups
             /\ {k \in DOMAIN fi.reg : k[1] = "rt"}
                   = RegisteredWith({"_photon_density", "_photon_flux"})
             /\ \A k \in RegisteredWith({"_species_density", "_species_mass",
                                         "_photon_density", "_photon_flux"}) :
                   EventCount("add_field", k) = 1
             /\ fi.fluid_types = FieldInfo(ds.field_list).fluid_types \o <<"rt">>
        ELSE /\ RegisteredWith({"_species_density", "_species_mass",
                                "_photon_density", "_photon_flux"}) = {}
             /\ DOMAIN fi.reg \cap AllRtFamilyKeys = {}
             /\ fi.fluid_types = FieldInfo(ds.field_list).fluid_types

C12_Witness ==
    /\ fluid_done /\ fi.exc = "none" /\ ds.rt_flag /\ ds.ngroups = MaxGroups
    /\ K("rt", "photon_flux_z_" \o ToString(MaxGroups)) \in DOMAIN fi.reg
    /\ Gas("He_p2_mass") \in DOMAIN fi.reg

\* C13: for a non-empty rt_c_frac and any max_level, the padded array (and
\* with it dens_conv) has at least max_level + 1 entries, so that
\* dens_conv[level] exists for the levels 0..max_level; the entries added are
\* the given value when rt_c_frac has one entry and 1 otherwise, and the given
\* entries stay in front, unchanged.
C13_RtCFracPaddedToMaxLevel ==
    (fluid_done /\ fi.exc = "none" /\ ds.rt_flag) =>
        LET given == ds.rt_c_frac IN
        /\ Len(fi.rt_c_frac) >= ds.max_level + 1
        /\ \A level \in 0..ds.max_level : level + 1 \in DOMAIN fi.rt_c_frac
        /\ Len(fi.rt_c_frac) >= Len(given)
        /\ SubSeq(fi.rt_c_frac, 1, Len(given)) = given
        /\ \A i \in (Len(given) + 1)..Len(fi.rt_c_frac) :
              fi.rt_c_frac[i] = (IF Len(given) = 1 THEN given[1] ELSE 1)

C13_Witness ==
    /\ fluid_done /\ fi.exc = "none" /\ ds.rt_flag
    /\ ds.rt_c_frac = <<2, 2>> /\ ds.max_level = MaxLevel
    /\ Len(fi.rt_c_frac) > 2 /\ fi.rt_c_frac[3] = 1

\* The place of the registration of `key` in the builder's trace (0: none).
AddedAt(key) == EventIndex("add_field", key)

\* The table fields other than mu.
OtherTableKeys == CoolingFamilyKeys \ {Gas("mu"), Gas("number_density"), Gas("cooling_total"),
                                       Gas("heating_total"), Gas("cooling_net")}

\* C14: in a successful ingestion of the cooling table the registrations come
\* in the order mu, number_density, every other table field, cooling_total,
\* heating_total, cooling_net, and mu is registered before every field whose
\* evaluator reads mu or number_density.
C14_CoolingRegistrationOrder ==
    (fluid_done /\ fi.found = "True") =>
        /\ AddedAt(Gas("mu")) = EventIndex("call", K("", "create_cooling_fields")) + 1
        /\ AddedAt(Gas("number_density")) = AddedAt(Gas("mu")) + 1
        /\ \A k \in OtherTableKeys :
              /\ AddedAt(Gas("number_density")) < AddedAt(k)
              /\ AddedAt(k) < AddedAt(Gas("cooling_total"))
        /\ AddedAt(Gas("cooling_total")) < AddedAt(Gas("heating_total"))
        /\ AddedAt(Gas("heating_total")) < AddedAt(Gas("cooling_net"))
        /\ \A k \in DOMAIN fi.reg :
              (/\ fi.reg[k].kind = "derived"
               /\ {Gas("mu"), Gas("number_density")} \cap SeqToSet(Reads(fi.reg[k])) # {})
              => AddedAt(Gas("mu")) < AddedAt(k)
        /\ \A k \in CoolingFamilyKeys : EventCount("add_field", k) = 1

C14_Witness ==
    /\ fluid_done /\ fi.found = "True" /\ fi.exc = "none"
    /\ AddedAt(Gas("mu")) > 0
    /\ AddedAt(Gas("cooling_compton")) > AddedAt(Gas("number_density"))
    /\ AddedAt(Gas("cooling_net")) > AddedAt(Gas("HeIII_number_density"))

\* The tokens name.split("_") gives for the name of a table.
Tokens(name) ==
    CASE name = "cooling_primordial"       -> {"cooling", "primordial"}
      [] name = "heating_primordial"       -> {"heating", "primordial"}
      [] name = "cooling_compton"          -> {"cooling", "compton"}
      [] name = "heating_compton"          -> {"heating", "compton"}
      [] name = "cooling_metal"            -> {"cooling", "metal"}
      [] name = "cooling_primordial_prime" -> {"cooling", "primordial", "prime"}
      [] name = "heating_primordial_prime" -> {"heating", "primordial", "prime"}
      [] name = "cooling_compton_prime"    -> {"cooling", "compton", "prime"}
      [] name = "heating_compton_prime"    -> {"heating", "compton", "prime"}
      [] name = "cooling_metal_prime"      -> {"cooling", "metal", "prime"}
      [] name = "mu"                       -> {"mu"}
      [] name = "Electron_number_density"  -> {"Electron", "number", "density"}
      [] name = "HI_number_density"        -> {"HI", "number", "density"}
      [] name = "HII_number_density"       -> {"HII", "number", "density"}
      [] name = "HeI_number_density"       -> {"HeI", "number", "density"}
      [] name = "HeII_number_density"      -> {"HeII", "number", "density"}
      [] name = "HeIII_number_density"     -> {"HeIII", "number", "density"}
      [] OTHER                             -> {}

\* C15: the evaluator of a table-backed field takes the interpolated value, as
\* a power of ten for every table but mu, and multiplies it by
\* metallicity / 0.02 iff the name has the token "metal", divides it by
\* number_density iff it has the token "compton" (and not "metal"), and leaves
\* it alone otherwise.
C15_TableFieldCorrections ==
    (fi.found = "True" /\ ctx.key[1] = "gas" /\ Gas(ctx.key[2]) \in RegisteredWith({"_func"})
     /\ ctx.exc = "none") =>
        LET name == ctx.key[2]
            v    == ctx.memo[ctx.key]
            x    == ctx.memo[Interp(name)]
            rv   == IF name = "mu" THEN x.n ELSE Pow10(x.n)
        IN  /\ x.d = 1
            /\ IF "metal" \in Tokens(name)
               THEN LET Z == ctx.memo[Gas("metallicity")]
                    IN  v.n * 2 * Z.d = rv * Z.n * 100 * v.d
               ELSE IF "compton" \in Tokens(name)
               THEN LET nd == ctx.memo[Gas("number_density")]
                    IN  v.n * nd.n = rv * nd.d * v.d
               ELSE v = Num(rv)

C15_Witness ==
    /\ fi.found = "True" /\ ctx.key = Gas("heating_compton_prime") /\ ctx.exc = "none"
    /\ ctx.memo[Interp("heating_compton_prime")] = Num(2)
    /\ ctx.memo[Gas("number_density")] = Num(2)
    /\ ctx.memo[ctx.key] = Num(50)

NearestSample(x, bins) ==
    IF x <= bins[1] THEN 1
    ELSE IF x >= bins[Len(bins)] THEN Len(bins)
    ELSE IF \E i \in DOMAIN bins : bins[i] = x THEN CHOOSE i \in DOMAIN bins : bins[i] = x
    ELSE 0

\* C17: every interpolator of a cooling table is built to clamp: a query whose
\* lognH or logT is below the least or above the greatest sample coordinate
\* yields the value at the nearest boundary sample, never an extrapolated one
\* (lognH = [0, 1], logT = [4, 5], mu = [[1.0, 1.0], [1.2, 1.2]]: (2, 4) yields
\* 1.2 and (0, 4) yields 1.0).
C17_InterpolatorClamps ==
    (lookup # NoLookup) =>
        LET it == lookup.interp
            x  == lookup.query[1]
            y  == lookup.query[2]
            v  == lookup.value
            i  == NearestSample(x, it.x_bins)
            j  == NearestSample(y, it.y_bins)
        IN  /\ it.truncate
            /\ v.ok
            /\ \E a \in DOMAIN it.x_bins, b \in DOMAIN it.y_bins : it.table[a][b] * v.d <= v.n
            /\ \E a \in DOMAIN it.x_bins, b \in DOMAIN it.y_bins : it.table[a][b] * v.d >= v.n
            /\ (i # 0 /\ j # 0) => v = Num(it.table[i][j])
            /\ (it.x_bins = <<0, 10>> /\ it.y_bins = <<40, 50>>
                /\ it.table = <<<<10, 10>>, <<12, 12>>>>) =>
                  /\ (x = 20 /\ y = 40) => v = Num(12)
                  /\ (x = 0 /\ y = 40) => v = Num(10)

C17_Witness ==
    /\ lookup # NoLookup
    /\ lookup.interp.x_bins = <<0, 10>> /\ lookup.interp.y_bins = <<40, 50>>
    /\ lookup.interp.table = <<<<10, 10>>, <<12, 12>>>>
    /\ lookup.query = <<20, 40>>
    /\ lookup.value = Num(12)

\* The part of the request's context that get() works on.
ContextState(c) ==
    [memo |-> c.memo, calls |-> c.calls, warn_calls |-> c.warn_calls,
     inprogress |-> c.inprogress, exc |-> c.exc]

\* The chunk as far as the context has loaded it: the on-disk and ambient
\* values it holds.
LoadedData(c) ==
    LET loaded == {k \in DOMAIN c.memo :
                      IsAmbient(k) \/ (k \in DOMAIN fi.reg /\ fi.reg[k].kind \in {"raw", "index"})}
    IN  [k \in loaded |-> c.memo[k].n]

\* The requests for `key` the evaluators invoked in context c make.
RequestsFor(c, key) ==
    {<<i, j>> \in (DOMAIN c.calls) \X (1..8) :
        /\ fi.reg[c.calls[i]].kind = "derived"
        /\ j \in DOMAIN Reads(fi.reg[c.calls[i]])
        /\ Reads(fi.reg[c.calls[i]])[j] = key}

\* C18: within one evaluation context get(context, key) is idempotent: no
\* evaluator and no on-disk field is invoked or loaded twice, however often
\* the evaluators request it, and a second get of any key the context holds
\* (the requested one or a dependency) leaves the context as it is: the same
\* memoized value, no further call.
C18_GetIsIdempotent ==
    (ctx # NoContext) =>
        /\ \A i, j \in DOMAIN ctx.calls : ctx.calls[i] = ctx.calls[j] => i = j
        /\ ctx.exc = "none" =>
              \A k \in DOMAIN ctx.memo :
                 Get(fi.reg, LoadedData(ctx), ctx.detector, k, ContextState(ctx))
                    = ContextState(ctx)

\* cooling_total was requested: temperature_over_mu, only a dependency, was
\* requested by several evaluators and computed once.
C18_Witness ==
    /\ ctx # NoContext
    /\ ctx.exc = "none"
    /\ ctx.key = Gas("cooling_total")
    /\ TemperatureOverMu \in DOMAIN ctx.memo
    /\ Cardinality(RequestsFor(ctx, TemperatureOverMu)) >= 3
    /\ Cardinality({i \in DOMAIN ctx.calls : ctx.calls[i] = TemperatureOverMu}) = 1

\* The keys a request for k goes on to request.
Requests(reg, k) ==
    IF k \notin DOMAIN reg THEN {}
    ELSE IF reg[k].kind = "derived" THEN SeqToSet(Reads(reg[k]))
    ELSE IF reg[k].kind = "alias" THEN {reg[k].target}
    ELSE {}

\* The keys requested, directly or transitively, from the keys of `seen`.
RECURSIVE Closure(_, _)
Closure(reg, seen) ==
    LET more == seen \cup UNION {Requests(reg, k) : k \in seen}
    IN  IF more = seen THEN seen ELSE Closure(reg, more)

RequestedBy(reg, k) == Closure(reg, Requests(reg, k))

\* k's evaluation requests k again.
OnCycle(reg, k) == k \in RequestedBy(reg, k)

\* A request for k runs into a cycle.
MeetsCycle(reg, k) == \E c \in RequestedBy(reg, k) \cup {k} : OnCycle(reg, c)

\* C19: a request for a field whose evaluation, directly or transitively,
\* requests the same field ends with CircularDependencyError (and only such a
\* request does); the context holds no value for the requested field nor for
\* any field on the cycle, and the evaluator of a field on the cycle is not
\* entered twice.
C19_CycleFailsWithoutValue ==
    (ctx # NoContext) =>
        /\ MeetsCycle(fi.reg, ctx.key) <=> ctx.exc = "CircularDependencyError"
        /\ MeetsCycle(fi.reg, ctx.key) =>
              /\ ctx.key \notin DOMAIN ctx.memo
              /\ \A c \in DOMAIN ctx.memo : ~OnCycle(fi.reg, c)
              /\ \A i, j \in DOMAIN ctx.calls : ctx.calls[i] = ctx.calls[j] => i = j

\* user_a was requested; it reads temperature_over_mu, which a caller
\* redefined to read temperature, which the builder defined to read
\* temperature_over_mu.
C19_Witness ==
    /\ ctx # NoContext
    /\ ctx.key = Gas("user_a")
    /\ ~OnCycle(fi.reg, Gas("user_a"))
    /\ OnCycle(fi.reg, TemperatureOverMu)
    /\ OnCycle(fi.reg, Temperature)
    /\ ctx.calls = <<Gas("user_a"), TemperatureOverMu, Temperature>>
    /\ ctx.exc = "CircularDependencyError"

\* The places of the registrations of k in the order they were made.
RegistrationsOf(k) == {i \in DOMAIN fi.registrations : fi.registrations[i].key = k}

\* The latest registration of k (k has one).
LatestRegistration(k) ==
    fi.registrations[CHOOSE i \in RegistrationsOf(k) : \A j \in RegistrationsOf(k) : j <= i]

\* C20: registering a key again is no error and the last registration wins:
\* after any sequence of registrations (the builder's, the declarations of
\* known_particle_fields with particle_mass declared twice, a caller's) the
\* registry holds for each key the definition of its latest registration, and
\* the definition it was constructed with for a key never registered since.
C20_LastRegistrationWins ==
    /\ fi.exc = "none"
    /\ \A i \in DOMAIN fi.registrations : fi.registrations[i].key \in DOMAIN fi.reg
    /\ \A k \in DOMAIN fi.reg :
          IF RegistrationsOf(k) = {}
          THEN /\ k \in DOMAIN InitialRegistry(ds.field_list)
               /\ fi.reg[k] = InitialRegistry(ds.field_list)[k]
          ELSE fi.reg[k] = LatestRegistration(k).def
    /\ \A p \in particles_done :
          /\ Cardinality(RegistrationsOf(K(p, "particle_mass"))) = 2
          /\ fi.reg[K(p, "particle_mass")] = KnownParticleDef(15)

\* particle_mass was declared twice for each particle type, and
\* temperature_over_mu was registered by the builder and twice by a caller:
\* the registry holds the caller's second definition.
C20_Witness ==
    /\ particles_done = ParticleTypes
    /\ Cardinality(RegistrationsOf(K("sink", "particle_mass"))) = 2
    /\ Cardinality(RegistrationsOf(TemperatureOverMu)) = 3
    /\ \E i \in RegistrationsOf(TemperatureOverMu) :
          fi.registrations[i].def = UserField(Gas("user_a"))
    /\ LatestRegistration(TemperatureOverMu).def = UserField(Gas("density"))
    /\ fi.reg[TemperatureOverMu] = UserField(Gas("density"))

\* The keys of S that request a key of S; what is left of S when this is
\* repeated to a fixed point are the keys on or leading into a cycle.
RECURSIVE Unfounded(_, _)
Unfounded(reg, S) ==
    LET T == {k \in S : Requests(reg, k) \cap S # {}}
    IN  IF T = S THEN S ELSE Unfounded(reg, T)

\* C22: the dependency graph of the fields the builder registers is acyclic
\* for every combination of capabilities: no registered field requests
\* itself, directly or transitively, so no evaluation of a registered field
\* can run for ever or end with CircularDependencyError. With the cooling
\* tables loaded the chains temperature -> mu -> temperature_over_mu and
\* cooling_net -> cooling_total -> cooling_compton -> number_density -> mu are
\* there.
C22_BuilderGraphIsAcyclic ==
    /\ Unfounded(fi.reg, {k \in DOMAIN fi.reg : fi.reg[k].kind \in {"alias", "derived"}}) = {}
    /\ (fluid_done /\ fi.found = "True") =>
          /\ Gas("mu") \in Requests(fi.reg, Temperature)
          /\ TemperatureOverMu \in Requests(fi.reg, Gas("mu"))
          /\ Gas("cooling_total") \in Requests(fi.reg, Gas("cooling_net"))
          /\ Gas("cooling_compton") \in Requests(fi.reg, Gas("cooling_total"))
          /\ Gas("number_density") \in Requests(fi.reg, Gas("cooling_compton"))
          /\ Gas("mu") \in Requests(fi.reg, Gas("number_density"))

\* Every family is registered: cooling tables, radiative transfer, magnetic
\* fields, gravity, stellar ages.
C22_Witness ==
    /\ fluid_done /\ particles_done = ParticleTypes
    /\ fi.found = "True"
    /\ ds.rt_flag /\ ds.ngroups = MaxGroups
    /\ Gas("magnetic_field_divergence") \in DOMAIN fi.reg
    /\ Gas("potential_energy") \in DOMAIN fi.reg
    /\ TemperatureOverMu \in RequestedBy(fi.reg, Gas("cooling_net"))

\* The file is complete and in the current format: every value block has
\* n1 * n2 values, the species block six times as many.
CurrentFormat(file) ==
    /\ file.exists /\ file.has_header
    /\ file.n1 >= 1 /\ file.n2 >= 1
    /\ file.vecs = CurrentFormatVecs(file.n1, file.n2)

\* C23 (as claimed): every cooling file in the current format, for all n1 >= 1
\* and n2 >= 1, is accepted: create_cooling_fields does not take the legacy
\* path for it (no message about an unsupported format) and returns True.
C23_CurrentFormatAccepted ==
    (fluid_done /\ CurrentFormat(ds.cooling_file)) =>
        /\ fi.found = "True"
        /\ fi.exc = "none"
        /\ \A i \in DOMAIN fi.log :
              fi.log[i] # "This cooling file format is no longer supported. "
                          \o "Cooling field loading skipped."

\* The read loop of create_cooling_fields ran over all the value blocks: no
\* legacy path, no exception.
ReadLoopFinished(file) ==
    file.exists /\ LoadCoolingFile(file).status = "done"

\* C24 (as claimed): whenever the read loop finishes without taking the legacy
\* path, whatever the sizes of the 12 value blocks, a table named mu exists
\* and every species slice is stored under one of the six species names, so
\* the registration of mu that follows does not fail on a missing table.
C24_MuTableExistsAfterRead ==
    (fluid_done /\ ReadLoopFinished(ds.cooling_file)) =>
        /\ \E i \in DOMAIN LoadCoolingFile(ds.cooling_file).tvals :
              LoadCoolingFile(ds.cooling_file).tvals[i].name = "mu"
        /\ \A i \in DOMAIN LoadCoolingFile(ds.cooling_file).tvals :
              LoadCoolingFile(ds.cooling_file).tvals[i].data[2] # -1 =>
                 LoadCoolingFile(ds.cooling_file).tvals[i].name \in SeqToSet(cool_species)
        /\ fi.exc # "KeyError"
        /\ Gas("mu") \in DOMAIN fi.reg

\* The fields the evaluators of the magnetic family read.
MagneticReads ==
    UNION {SeqToSet(Reads(fi.reg[k])) : k \in DOMAIN fi.reg \cap MagneticFamilyKeys}

\* C25 (as claimed): whenever the magnetic family is registered, every field
\* its evaluators read (magnetic_field_<ax>_left and magnetic_field_<ax>_right
\* for every axis of the axis order, and dx) is in the registry, for every set
\* of on-disk fields.
C25_MagneticReadsAreRegistered ==
    (fluid_done /\ MagneticFamilyRegistered) =>
        /\ \A i \in DOMAIN axis_order :
              /\ Gas("magnetic_field_" \o axis_order[i] \o "_left") \in DOMAIN fi.reg
              /\ Gas("magnetic_field_" \o axis_order[i] \o "_right") \in DOMAIN fi.reg
        /\ MagneticReads \subseteq DOMAIN fi.reg

\* C27 (as claimed): the padded rt_c_frac has exactly
\* max(len(rt_c_frac), max_level + 1) entries: an array that already has
\* max_level + 1 entries or more is left as it is.
C27_PaddedLengthIsExact ==
    (fluid_done /\ ds.rt_flag /\ fi.exc = "none") =>
        /\ Len(fi.rt_c_frac) = (IF Len(ds.rt_c_frac) >= ds.max_level + 1
                                THEN Len(ds.rt_c_frac) ELSE ds.max_level + 1)
        /\ Len(ds.rt_c_frac) >= ds.max_level + 1 => fi.rt_c_frac = ds.rt_c_frac

\* The on-disk field behind an alias of the registry.
OnDisk(key) == fi.reg[key].target

\* The on-disk fields the request's context loaded.
Loaded == {ctx.calls[i] : i \in DOMAIN ctx.calls} \cap ds.field_list

\* C26: each evaluator made in a registration loop reads the fields of its
\* own loop value, never those of the value the loop ended on:
\* (rt, photon_density_g) reads (ramses-rt, Photon_density_g) and returns it
\* times the density conversion, (rt, photon_flux_<k>_g) reads
\* (ramses-rt, Photon_flux_<k>_g) and returns it times the flux conversion,
\* <species>_density reads <species>_fraction and the density,
\* magnetic_field_<ax> reads the two <ax> faces, for every group g, axis k,
\* species and axis ax.
C26_EvaluatorsBoundToLoopValue ==
    (ctx # NoContext /\ ctx.exc = "none") =>
        /\ \A g \in 1..ds.ngroups :
              /\ ctx.key = K("rt", "photon_density_" \o ToString(g)) =>
                    /\ Loaded = {K("ramses-rt", "Photon_density_" \o ToString(g))}
                    /\ ctx.memo[ctx.key]
                          = RMul(ctx.memo[K("ramses-rt", "Photon_density_" \o ToString(g))],
                                 ctx.memo[DensConv])
              /\ \A i \in DOMAIN rt_flux_keys :
                    ctx.key = K("rt", "photon_flux_" \o rt_flux_keys[i] \o "_" \o ToString(g)) =>
                       /\ Loaded = {K("ramses-rt", "Photon_flux_" \o rt_flux_keys[i]
                                                    \o "_" \o ToString(g))}
                       /\ ctx.memo[ctx.key]
                             = RMul(ctx.memo[K("ramses-rt", "Photon_flux_" \o rt_flux_keys[i]
                                                             \o "_" \o ToString(g))],
                                    ctx.memo[FluxConv])
        /\ \A i \in DOMAIN rt_species :
              ctx.key = Gas(rt_species[i] \o "_density") =>
                 /\ Loaded = {OnDisk(Gas(rt_species[i] \o "_fraction")), OnDisk(Gas("density"))}
                 /\ ctx.memo[ctx.key]
                       = RMul(ctx.memo[Gas(rt_species[i] \o "_fraction")],
                              ctx.memo[Gas("density")])
        /\ \A i \in DOMAIN axis_order :
              ctx.key = Gas("magnetic_field_" \o axis_order[i]) =>
                 Loaded = {K("ramses", "B_" \o axis_order[i] \o "_left"),
                           K("ramses", "B_" \o axis_order[i] \o "_right")}

\* Group 1 of several was requested: its own photon density, 2 in this chunk,
\* was read, not that of the last group.
C26_Witness ==
    /\ ctx # NoContext /\ ctx.exc = "none"
    /\ ds.ngroups > 1
    /\ ctx.key = K("rt", "photon_density_1")
    /\ ctx.memo[K("ramses-rt", "Photon_density_1")] = Num(2)
    /\ K("ramses-rt", "Photon_density_" \o ToString(ds.ngroups)) \notin DOMAIN ctx.memo
    /\ ctx.memo[ctx.key] = Num(2)

\* The request of a worker run alone, in one go, against the registry the
\* worker found when it began.
Alone(wk) == Get(wk.seen.reg, wk.data, FALSE, wk.key, NewContext)

\* C21: the registry is read-only during evaluation: no evaluator the builder
\* registers writes to the field container, so however the steps of requests
\* running in separate contexts interleave, the container stays as each
\* request found it, every value a request holds is the value it holds when run alone,
\* and a finished request has the result, the calls, the warnings and the
\* outcome it has when run alone.
C21_RegistryReadOnlyDuringEvaluation ==
    \A w \in Workers :
       workers[w] # NoWorker =>
          LET alone == Alone(workers[w])
          IN  /\ fi = workers[w].seen
              /\ \A k \in DOMAIN workers[w].memo :
                    k \in DOMAIN alone.memo /\ workers[w].memo[k] = alone.memo[k]
              /\ Finished(workers[w]) =>
                    /\ workers[w].exc = alone.exc
                    /\ workers[w].memo = alone.memo
                    /\ workers[w].calls = alone.calls
                    /\ workers[w].warn_calls = alone.warn_calls

\* Two requests are under way at once, each part-way through: heating_total
\* two evaluators deep with density in its context, temperature two
\* evaluators deep on another chunk with pressure in its context.
C21_Witness ==
    /\ workers[1].key = Gas("heating_total") /\ workers[1].exc = "none"
    /\ Len(workers[1].stack) >= 2
    /\ Gas("density") \in DOMAIN workers[1].memo
    /\ workers[2].key = Temperature /\ workers[2].exc = "none"
    /\ Len(workers[2].stack) >= 2
    /\ workers[2].data # workers[1].data
    /\ Gas("pressure") \in DOMAIN workers[2].memo

====
